---- MODULE Spec2Model ----
(***************************************************************************)
(* Timer-multiplexed, interrupt-driven peripheral subsystem of the         *)
(* Arduino Uno board crate (boards/arduino-uno): the servo pulse scheduler *)
(* (servo.rs), the tone generator (tone.rs), the monotonic clock           *)
(* (time.rs), the external / pin-change interrupt registry (interrupt.rs,  *)
(* pcint.rs) and the peripherals singleton (lib.rs).                       *)
(*                                                                         *)
(* One module, several specifications: each subsystem has its own Init and *)
(* Next over the shared variables; the variables of the other subsystems   *)
(* are left unchanged.                                                     *)
(***************************************************************************)
EXTENDS Integers, Sequences, FiniteSets, TLC

VARIABLES
    \* ---- CPU and GPIO registers shared by the drivers
    iflag,                      \* SREG I bit: global interrupt enable
    PORTB, PORTD,               \* output registers, as the set of bits that are 1
    DDRB, DDRD,                 \* direction registers, as the set of bits that are 1
    \* ---- servo.rs
    SERVOS,                     \* [0..11 -> slot record]; some = FALSE is None
    SERVO_COUNT,
    TIMER_INITIALIZED,
    CURRENT_SERVO_INDEX,
    SERVO_FRAME_CYCLE_ACTIVE,
    TCCR1B, TIMSK1, OCR1A,      \* Timer1 registers (TCCR1B, TIMSK1 as sets of bits)
    \* ---- observation of the servo scheduler (not program state)
    phase,                      \* what the scheduler programmed last: idle / pulse / gap
    frameLog,                   \* slots whose pulse was started in the current frame
    frameTicks,                 \* compare intervals programmed in the current frame
    stable,                     \* no foreground servo call since the frame began
    wrote,                      \* [slot -> angle of its last write(), NoAngle if none
                                \* or once attach or write_microseconds came after]
    watched,                    \* slot last detached during its own pulse, NoSlot if
                                \* none or once its pin is attached again
    \* ---- tone.rs
    TONE_PIN,                   \* NoPin is None
    TONE_TOGGLE_COUNT,
    TONE_PORT,                  \* address of the PORT register, 0 when unset
    TONE_MASK,                  \* bit mask, as the set of bits that are 1
    TCCR2A, TCCR2B, OCR2A,      \* Timer2 registers
    TIMSK2,                     \* as the set of bits that are 1
    tonePending,                \* tone_duration between its critical section and tone()
    started,                    \* observation: pin of the last tone() that got through,
                                \* the pins of those before it, whether __vector_7
                                \* has run since and whether no_tone has stopped it
    \* ---- time.rs
    TCCR0B, TIMSK0, TIFR0,      \* Timer0 registers, as the set of bits that are 1
    TCNT0,
    TIMER0_OVERFLOW_COUNT,
    TIMER0_MILLIS,
    TIMER0_FRACT,
    mic,                        \* micros() in progress: position and locals
    csStack,                    \* restore states of the open critical sections
    \* ---- observation of the clock (not program state)
    lastMicros,                 \* result of the last micros() call, NoResult if none
    millisSeen,                 \* last millis() call: overflows counted, value returned
    \* ---- interrupt.rs, lib.rs
    INTERRUPT_HANDLERS,         \* [source -> handler], NoHandler for None
    EICRA,                      \* [source -> the two mode bits of the source]
    EIFR, EIMSK,                \* as the set of bits that are 1
    TAKEN,
    fg,                         \* foreground position: idle, or inside a closure
    savedEimsk,                 \* the caller's copy of what disable_interrupts returned
    maskTouched,                \* observation: disable_interrupts has been called
    invoked,                    \* observation: what the last vector firing called
    registered,                 \* observation: [source -> handler of the last
                                \* attach_interrupt not followed by a detach]
    isr,                        \* "take" while a handler is inside Peripherals::take()
                                \* after init_timer, "none" otherwise
    takeLog,                    \* observation: who made each take() call, what it
                                \* returned and whether it ran init_timer, in call order
    \* ---- pcint.rs
    PCINT_HANDLERS,             \* [bank -> handler], NoHandler for None
    PCMSK,                      \* [bank -> set of enabled pin bits]
    PCICR, PCIFR,               \* as the set of bits that are 1
    \* ---- inputs and results of the functions checked on their own
    trip,                       \* Servo: limits, angle written, width stored, angle read
    sweep,                      \* tone(): the pin and frequency of the call, and
                                \* whether it has been made
    handed,                     \* Servo::new: the slot each call returned, in call order
    halted,                     \* Servo::new has panicked
    readBack,                   \* digital_read: the pin of the last call and its result
    wait,                       \* a bounded wait: the operation, the clock values read,
                                \* the bound, the build and how the wait stands
    pwm,                        \* Timer0 PWM: TCCR0A, OCR0A, OCR0B, the mode of pins 5 and 6
    uart,                       \* Serial: the receive FIFO, peek_byte, bytes arrived and returned
    soft,                       \* SoftwareSerial: INSTANCE_COUNT, INSTANCES, ACTIVE_INSTANCE
    twi,                        \* I2c: the call in progress, the bus operations left, what went on the bus
    rxq                         \* SoftwareSerial receive ring of the active instance, and the call in progress

cpuVars   == <<iflag, PORTB, PORTD, DDRB, DDRD>>
servoVars == <<SERVOS, SERVO_COUNT, TIMER_INITIALIZED, CURRENT_SERVO_INDEX,
               SERVO_FRAME_CYCLE_ACTIVE, TCCR1B, TIMSK1, OCR1A>>
servoObs  == <<phase, frameLog, frameTicks, stable, watched, wrote>>
toneVars  == <<TONE_PIN, TONE_TOGGLE_COUNT, TONE_PORT, TONE_MASK,
               TCCR2A, TCCR2B, OCR2A, TIMSK2, tonePending, started>>
clockVars == <<TCCR0B, TIMSK0, TIFR0, TCNT0, TIMER0_OVERFLOW_COUNT, TIMER0_MILLIS,
               TIMER0_FRACT, mic>>
clockObs  == <<lastMicros, millisSeen>>
irqObs    == <<invoked, registered>>
takeVars  == <<isr, takeLog>>
irqVars   == <<INTERRUPT_HANDLERS, EICRA, EIFR, EIMSK, TAKEN, fg, savedEimsk, maskTouched,
               irqObs, takeVars>>
pcintVars == <<PCINT_HANDLERS, PCMSK, PCICR, PCIFR>>
pureVars  == <<trip, sweep, handed, halted, readBack, wait, pwm, uart, soft, twi, rxq>>
vars      == <<cpuVars, servoVars, servoObs, toneVars, clockVars, clockObs, csStack,
               irqVars, pcintVars, pureVars>>

(***************************************************************************)
(* Helpers                                                                 *)
(***************************************************************************)
Min2(a, b) == IF a <= b THEN a ELSE b
Max2(a, b) == IF a >= b THEN a ELSE b
SetMin(S) == CHOOSE x \in S : \A y \in S : x <= y

RECURSIVE SetSum(_, _)
\* sum of f[x] for x in S
SetSum(f, S) ==
    IF S = {} THEN 0
    ELSE LET x == CHOOSE y \in S : TRUE IN f[x] + SetSum(f, S \ {x})

\* u16 arithmetic wraps at 2^16; every u32 value of the model stays below 2^31
U16 == 65536

(***************************************************************************)
(* GPIO: pin.rs digital_write, gpio.rs pin_mode, gpio_impl.rs              *)
(***************************************************************************)
\* gpio_impl::pin_to_port_bit for the pins digital_write lets through (0..13)
PortOf(pin) == IF pin <= 7 THEN "D" ELSE "B"
BitOf(pin)  == IF pin <= 7 THEN pin ELSE pin - 8

\* digital_write(pin, state) on the pair of output registers p = [B, D]
DigitalWrite(p, pin, high) ==
    IF pin > 13 THEN p
    ELSE IF PortOf(pin) = "D"
         THEN [p EXCEPT !.D = IF high THEN @ \cup {BitOf(pin)} ELSE @ \ {BitOf(pin)}]
         ELSE [p EXCEPT !.B = IF high THEN @ \cup {BitOf(pin)} ELSE @ \ {BitOf(pin)}]

\* pin_mode(pin, OUTPUT) on the pair of direction registers d = [B, D];
\* pin_to_registers maps an invalid pin to (DDRD, PORTD, 0). DDRC is not modelled.
PinModeOutput(d, pin) ==
    IF pin <= 7 THEN [d EXCEPT !.D = @ \cup {pin}]
    ELSE IF pin <= 13 THEN [d EXCEPT !.B = @ \cup {pin - 8}]
    ELSE IF pin <= 19 THEN d
    ELSE [d EXCEPT !.D = @ \cup {0}]

Ports == [B |-> PORTB, D |-> PORTD]
Ddrs  == [B |-> DDRB, D |-> DDRD]
PinHigh(pin) == IF PortOf(pin) = "D" THEN BitOf(pin) \in PORTD ELSE BitOf(pin) \in PORTB

\* constants.rs
INPUT        == 0
OUTPUT       == 1
INPUT_PULLUP == 2

\* gpio.rs pin_to_registers: the register pair and the bit of a pin; a pin above
\* 19 is mapped to bit 0 of port D. Port C is not modelled.
PinToRegisters(pin) ==
    IF pin <= 7 THEN [reg |-> "D", bit |-> pin]
    ELSE IF pin <= 13 THEN [reg |-> "B", bit |-> pin - 8]
    ELSE IF pin <= 19 THEN [reg |-> "C", bit |-> pin - 14]
    ELSE [reg |-> "D", bit |-> 0]

\* a register pair [B, D] with the bit of register reg set or cleared
WithBit(p, reg, bit, on) ==
    IF reg = "D" THEN [p EXCEPT !.D = IF on THEN @ \cup {bit} ELSE @ \ {bit}]
    ELSE IF reg = "B" THEN [p EXCEPT !.B = IF on THEN @ \cup {bit} ELSE @ \ {bit}]
    ELSE p

\* Inputs of the pin-level calls: pins of both ports and pins above 19
GpioPins   == {2, 13, 20, 255}
GpioModes  == {INPUT, OUTPUT, INPUT_PULLUP, 3}
GpioValues == {0, 200}

\* digital_write(pin, state)
DigitalWriteCall(pin, high) ==
    /\ LET p == DigitalWrite(Ports, pin, high) IN PORTB' = p.B /\ PORTD' = p.D
    /\ UNCHANGED <<iflag, DDRB, DDRD>>
    /\ UNCHANGED pureVars
    /\ UNCHANGED <<servoVars, servoObs, toneVars, clockVars, clockObs, csStack, irqVars,
                   pcintVars>>

\* digital_read(pin): Low above pin 13; otherwise the level of the pin, which is
\* the output bit for an output pin and whatever is applied to an input pin
DigitalReadCall(pin) ==
    /\ \E level \in BOOLEAN :
          /\ pin <= 13 /\ BitOf(pin) \in Ddrs[PortOf(pin)] => level = PinHigh(pin)
          /\ pin > 13 => level = FALSE
          /\ readBack' = [pin |-> pin, state |-> IF level THEN "High" ELSE "Low"]
    /\ UNCHANGED <<trip, sweep, handed, halted, wait, pwm, uart, soft, twi, rxq>>
    /\ UNCHANGED <<cpuVars, servoVars, servoObs, toneVars, clockVars, clockObs, csStack,
                   irqVars, pcintVars>>

\* gpio.rs pin_mode(pin, mode)
PinModeCall(pin, mode) ==
    /\ LET r == PinToRegisters(pin)
           d == IF mode = OUTPUT THEN WithBit(Ddrs, r.reg, r.bit, TRUE)
                ELSE IF mode \in {INPUT, INPUT_PULLUP}
                     THEN WithBit(Ddrs, r.reg, r.bit, FALSE)
                     ELSE Ddrs
           p == IF mode = INPUT THEN WithBit(Ports, r.reg, r.bit, FALSE)
                ELSE IF mode = INPUT_PULLUP THEN WithBit(Ports, r.reg, r.bit, TRUE)
                     ELSE Ports
       IN  /\ DDRB' = d.B /\ DDRD' = d.D
           /\ PORTB' = p.B /\ PORTD' = p.D
    /\ UNCHANGED iflag
    /\ UNCHANGED pureVars
    /\ UNCHANGED <<servoVars, servoObs, toneVars, clockVars, clockObs, csStack, irqVars,
                   pcintVars>>

\* gpio.rs analog_write(pin, value): digital_write_raw(pin, value >= 128)
AnalogWriteCall(pin, value) ==
    /\ LET r == PinToRegisters(pin)
           d == WithBit(Ddrs, r.reg, r.bit, TRUE)
           p == WithBit(Ports, r.reg, r.bit, value >= 128)
       IN  /\ DDRB' = d.B /\ DDRD' = d.D
           /\ PORTB' = p.B /\ PORTD' = p.D
    /\ UNCHANGED iflag
    /\ UNCHANGED pureVars
    /\ UNCHANGED <<servoVars, servoObs, toneVars, clockVars, clockObs, csStack, irqVars,
                   pcintVars>>

(***************************************************************************)
(* servo.rs                                                                *)
(***************************************************************************)
MIN_PULSE_WIDTH     == 544
MAX_PULSE_WIDTH     == 2400
DEFAULT_PULSE_WIDTH == 1500
REFRESH_INTERVAL    == 20000
SERVOS_PER_TIMER    == 12
TICKS_PER_US        == 2
OCIE1A              == 1        \* TIMSK1 bit

\* Bound: Servo::new() is called at most MaxServos times
MaxServos == 2

Slots == 0 .. (SERVOS_PER_TIMER - 1)

NoServo == [some |-> FALSE, pin |-> 0, pulse_width |-> 0,
            min_pulse |-> 0, max_pulse |-> 0, is_attached |-> FALSE]

\* Inputs of the foreground calls
AttachPins  == {9, 10}
LimitPairs  == {<<1600, 2000>>}
WriteMicros == {1000}
WriteAngles == {90}

NoSlot == -1
NoAngle == -1

Attached(servos) == {j \in Slots : servos[j].some /\ servos[j].is_attached}
PulseWidths(servos) == [j \in Slots |-> servos[j].pulse_width]

\* the statics and Timer1 registers after reset
ServoReset ==
    /\ SERVOS = [j \in Slots |-> NoServo]
    /\ SERVO_COUNT = 0
    /\ TIMER_INITIALIZED = FALSE
    /\ CURRENT_SERVO_INDEX = 0
    /\ SERVO_FRAME_CYCLE_ACTIVE = FALSE
    /\ TCCR1B = {} /\ TIMSK1 = {} /\ OCR1A = 0
    /\ phase = "idle" /\ frameLog = <<>> /\ frameTicks = 0 /\ stable = FALSE
    /\ watched = NoSlot
    /\ wrote = [j \in Slots |-> NoAngle]

\* A foreground call that changes the slot table: the frame under way is no
\* longer one with a fixed table, and its observation is dropped
Disturbed == stable' = FALSE /\ frameLog' = <<>> /\ frameTicks' = 0

\* a counter that new() stores back as it read it
CountAfterNewStuck(count) == count

\* the value new() stores in SERVO_COUNT
CountAfterNew(count) == count + 1

\* Servo::new past its capacity test: the counter and the fresh slot
ServoNewBody ==
    /\ SERVOS' = [SERVOS EXCEPT ![SERVO_COUNT] =
                     [some |-> TRUE, pin |-> 0, pulse_width |-> DEFAULT_PULSE_WIDTH,
                      min_pulse |-> MIN_PULSE_WIDTH, max_pulse |-> MAX_PULSE_WIDTH,
                      is_attached |-> FALSE]]
    /\ SERVO_COUNT' = CountAfterNew(SERVO_COUNT)
    /\ UNCHANGED <<TIMER_INITIALIZED, CURRENT_SERVO_INDEX, SERVO_FRAME_CYCLE_ACTIVE,
                   TCCR1B, TIMSK1, OCR1A>>

\* Servo::new
ServoNew ==
    /\ UNCHANGED pureVars
    /\ UNCHANGED <<irqVars, pcintVars>>
    /\ UNCHANGED <<clockVars, clockObs, csStack>>
    /\ UNCHANGED toneVars
    /\ SERVO_COUNT < MaxServos
    /\ SERVO_COUNT < SERVOS_PER_TIMER
    /\ ServoNewBody
    /\ UNCHANGED servoObs
    /\ UNCHANGED cpuVars

\* Servo::new with its panic: the call that finds the counter at SERVOS_PER_TIMER
\* panics inside the critical section and nothing runs afterwards
ServoNewOrPanic ==
    /\ ~halted
    /\ IF SERVO_COUNT >= SERVOS_PER_TIMER
       THEN /\ halted' = TRUE
            /\ UNCHANGED <<servoVars, handed>>
       ELSE /\ ServoNewBody
            /\ handed' = Append(handed, SERVO_COUNT)
            /\ UNCHANGED halted
    /\ UNCHANGED <<trip, sweep, readBack, wait, pwm, uart, soft, twi, rxq>>
    /\ UNCHANGED <<cpuVars, servoObs, toneVars, clockVars, clockObs, csStack, irqVars,
                   pcintVars>>

\* start_servo_cycle: reads the slot table as stored in SERVOS (the caller's
\* modified copy is stored only after this returns). Yields the new
\* [ports, ocr, started] from the stored table.
StartServoCycle(stored, ports, ocr) ==
    IF stored[0].some /\ stored[0].is_attached
    THEN [ports |-> DigitalWrite(ports, stored[0].pin, TRUE),
          ocr   |-> (stored[0].pulse_width * TICKS_PER_US) % U16,
          started |-> TRUE]
    ELSE [ports |-> ports, ocr |-> ocr, started |-> FALSE]

\* The slot record attach_with_limits stores
AttachedSlot(servo, pin, min, max) ==
    [servo EXCEPT !.pin = pin, !.min_pulse = min, !.max_pulse = max,
                  !.is_attached = TRUE]

\* Servo::attach_with_limits(pin, min, max) on the handle of slot i
AttachWithLimits(i, pin, min, max) ==
    /\ UNCHANGED pureVars
    /\ UNCHANGED <<irqVars, pcintVars>>
    /\ UNCHANGED <<clockVars, clockObs, csStack>>
    /\ UNCHANGED toneVars
    /\ i < SERVO_COUNT
    /\ LET start == IF SERVO_FRAME_CYCLE_ACTIVE
                    THEN [ports |-> Ports, ocr |-> OCR1A, started |-> FALSE]
                    ELSE StartServoCycle(SERVOS, Ports, OCR1A)
           ddr   == PinModeOutput(Ddrs, pin)
       IN  /\ SERVOS' = [SERVOS EXCEPT ![i] = AttachedSlot(SERVOS[i], pin, min, max)]
           /\ TIMER_INITIALIZED' = TRUE
           \* init_timer1_for_servos: CTC, prescaler 8, OCIE1A
           /\ TCCR1B' = IF TIMER_INITIALIZED THEN TCCR1B ELSE {3, 1}
           /\ TIMSK1' = IF TIMER_INITIALIZED THEN TIMSK1 ELSE TIMSK1 \cup {OCIE1A}
           /\ DDRB' = ddr.B /\ DDRD' = ddr.D
           /\ PORTB' = start.ports.B /\ PORTD' = start.ports.D
           /\ OCR1A' = start.ocr
           /\ SERVO_FRAME_CYCLE_ACTIVE' = TRUE
           /\ CURRENT_SERVO_INDEX' = IF SERVO_FRAME_CYCLE_ACTIVE
                                     THEN CURRENT_SERVO_INDEX ELSE 0
           /\ phase' = IF SERVO_FRAME_CYCLE_ACTIVE THEN phase
                       ELSE IF start.started THEN "pulse" ELSE "idle"
    /\ Disturbed
    /\ watched' = IF watched # NoSlot /\ (watched = i \/ SERVOS[watched].pin = pin)
                  THEN NoSlot ELSE watched
    /\ wrote' = [wrote EXCEPT ![i] = NoAngle]
    /\ UNCHANGED <<SERVO_COUNT, iflag>>

\* Servo::attach(pin)
Attach(i, pin) == AttachWithLimits(i, pin, MIN_PULSE_WIDTH, MAX_PULSE_WIDTH)

\* the pulse of slot i is in flight: the ISR started it and has not fired
\* since, the pin is high and belongs to no other attached slot
InFlight(i) ==
    /\ phase = "pulse" /\ CURRENT_SERVO_INDEX = i
    /\ SERVOS[i].some /\ SERVOS[i].is_attached
    /\ PinHigh(SERVOS[i].pin)
    /\ \A k \in Attached(SERVOS) \ {i} : SERVOS[k].pin # SERVOS[i].pin

\* detach that leaves the pin as it is
DetachKeepsPin(ports, pin) == ports

\* Servo::detach: digital_write(servo.pin, Low)
DetachDrivesLow(ports, pin) == DigitalWrite(ports, pin, FALSE)

\* Servo::detach
Detach(i) ==
    /\ UNCHANGED pureVars
    /\ UNCHANGED <<irqVars, pcintVars>>
    /\ UNCHANGED <<clockVars, clockObs, csStack>>
    /\ UNCHANGED toneVars
    /\ i < SERVO_COUNT
    /\ SERVOS' = [SERVOS EXCEPT ![i].is_attached = FALSE]
    /\ LET p == DetachDrivesLow(Ports, SERVOS[i].pin)
       IN  PORTB' = p.B /\ PORTD' = p.D
    /\ Disturbed
    /\ watched' = IF InFlight(i) THEN i ELSE watched
    /\ UNCHANGED wrote
    /\ UNCHANGED <<SERVO_COUNT, TIMER_INITIALIZED, CURRENT_SERVO_INDEX,
                   SERVO_FRAME_CYCLE_ACTIVE, TCCR1B, TIMSK1, OCR1A,
                   phase, iflag, DDRB, DDRD>>

\* The clamp of write_microseconds: microseconds.max(min_pulse).min(max_pulse)
ClampPulse(servo, microseconds) ==
    Min2(Max2(microseconds, servo.min_pulse), servo.max_pulse)

\* write_microseconds: the clamped width is stored in the slot
StoreWidth(i, microseconds) ==
    /\ UNCHANGED pureVars
    /\ UNCHANGED <<irqVars, pcintVars>>
    /\ UNCHANGED <<clockVars, clockObs, csStack>>
    /\ UNCHANGED toneVars
    /\ i < SERVO_COUNT
    /\ SERVOS' = [SERVOS EXCEPT ![i].pulse_width = ClampPulse(SERVOS[i], microseconds)]
    /\ Disturbed
    /\ UNCHANGED <<SERVO_COUNT, TIMER_INITIALIZED, CURRENT_SERVO_INDEX,
                   SERVO_FRAME_CYCLE_ACTIVE, TCCR1B, TIMSK1, OCR1A, phase, watched>>
    /\ UNCHANGED cpuVars

\* Servo::write_microseconds(microseconds)
WriteMicroseconds(i, microseconds) ==
    /\ StoreWidth(i, microseconds)
    /\ wrote' = [wrote EXCEPT ![i] = NoAngle]

\* a width computed from the span alone, without min_pulse added
AngleToPulseNoOffset(servo, angle) ==
    LET a     == Min2(angle, 180)
        range == (servo.max_pulse - servo.min_pulse) % U16
    IN  ((a * range) \div 180) % U16

\* The pulse width Servo::write computes in its first critical section
\* (u16 subtraction and u32 product, truncated to u16)
AngleToPulse(servo, angle) ==
    LET a     == Min2(angle, 180)
        range == (servo.max_pulse - servo.min_pulse) % U16
    IN  (servo.min_pulse + (((a * range) \div 180) % U16)) % U16

\* Servo::write(angle): the pulse width is computed in one critical section and
\* stored by write_microseconds in a second one. No interrupt handler writes the
\* slot table, so the value computed is the one the second section would
\* compute: the call is one step, taken when the second section runs.
WriteAngle(i, angle) ==
    /\ StoreWidth(i, AngleToPulse(SERVOS[i], angle))
    /\ wrote' = [wrote EXCEPT ![i] = angle]

\* Servo::read without the multiplication by 180 before the division
PulseToAngleDivideFirst(servo) ==
    LET range  == (servo.max_pulse - servo.min_pulse) % U16
        offset == (servo.pulse_width - servo.min_pulse) % U16
    IN  ((offset \div range) * 180) % U16

\* Servo::read: the angle computed from the stored width (u16 subtractions,
\* u32 product, truncated to u16)
PulseToAngle(servo) ==
    LET range  == (servo.max_pulse - servo.min_pulse) % U16
        offset == (servo.pulse_width - servo.min_pulse) % U16
    IN  ((offset * 180) \div range) % U16

\* Limit pairs and angles of the round trip write(angle), read()
TripLimits == {<<1000, 1001>>, <<1000, 1090>>, <<1000, 1179>>, <<1000, 1180>>,
               <<1000, 1181>>, <<544, 2400>>, <<0, 65535>>}
TripAngles == 0 .. 180

NoTrip == [stage |-> "none", servo |-> NoServo, angle |-> 0, back |-> 0]

\* the slot after Servo::new and attach_with_limits(9, min, max)
TripSlot(min, max) ==
    AttachedSlot([some |-> TRUE, pin |-> 0, pulse_width |-> DEFAULT_PULSE_WIDTH,
                  min_pulse |-> MIN_PULSE_WIDTH, max_pulse |-> MAX_PULSE_WIDTH,
                  is_attached |-> FALSE], 9, min, max)

\* write(angle) on the slot: AngleToPulse, then the clamp of write_microseconds
TripWrite ==
    /\ trip.stage = "attached"
    /\ trip' = [trip EXCEPT !.stage = "written",
                   !.servo.pulse_width = ClampPulse(trip.servo, AngleToPulse(trip.servo, trip.angle))]
    /\ UNCHANGED <<sweep, handed, halted, readBack, wait, pwm, uart, soft, twi, rxq>>
    /\ UNCHANGED <<cpuVars, servoVars, servoObs, toneVars, clockVars, clockObs, csStack,
                   irqVars, pcintVars>>

\* read() on the slot
TripRead ==
    /\ trip.stage = "written"
    /\ trip' = [trip EXCEPT !.stage = "read", !.back = PulseToAngle(trip.servo)]
    /\ UNCHANGED <<sweep, handed, halted, readBack, wait, pwm, uart, soft, twi, rxq>>
    /\ UNCHANGED <<cpuVars, servoVars, servoObs, toneVars, clockVars, clockObs, csStack,
                   irqVars, pcintVars>>

NoSweep == [pin |-> 0, frequency |-> 0, called |-> FALSE]

NoRead == [pin |-> 0, state |-> "none"]
NoWait == [op |-> "none"]

\* pwm.rs: Timer0 after reset, pins 5 and 6 as Pin<_, mode::Output>
PwmReset ==
    [TCCR0A |-> {}, OCR0A |-> 0, OCR0B |-> 0,
     mode |-> [pin \in {5, 6} |-> "Output"], last |-> <<"none", 0>>]

\* serial.rs: Serial::new, nothing received yet
NoByte == -1
SerialNew ==
    [rx |-> <<>>, peek_byte |-> NoByte, arrived |-> <<>>, delivered |-> <<>>,
     last |-> <<"new", NoByte>>]

\* software_serial.rs: the statics before the first SoftwareSerial::new
MaxInstances == 4
NoInstance   == -1
NoState      == [some |-> FALSE, rx_pin |-> 0, tx_pin |-> 0, inverse_logic |-> FALSE,
                 is_listening |-> FALSE]
SoftReset ==
    [INSTANCE_COUNT |-> 0, INSTANCES |-> [i \in 0 .. (MaxInstances - 1) |-> NoState],
     ACTIVE_INSTANCE |-> NoInstance]

\* i2c.rs: no call made yet
TwiIdle == [op |-> "none", plan |-> <<>>, sentStart |-> FALSE, sentStop |-> FALSE,
            result |-> "none"]

\* software_serial.rs: the ring after listen(), nothing received
RX_BUFFER_SIZE == 64

\* what the step just taken returned to its caller, if it was the end of a call
NoReturn == [op |-> "none", value |-> 0, flag |-> FALSE]
RxEmpty ==
    [rx_buffer |-> [k \in 0 .. (RX_BUFFER_SIZE - 1) |-> 0],
     rx_buffer_head |-> 0, rx_buffer_tail |-> 0, buffer_overflow |-> FALSE,
     pc |-> "idle", loaded |-> FALSE, ret |-> NoReturn,
     arrivals |-> 0, fifo |-> <<>>, unreported |-> FALSE]

PeriphReset == pwm = PwmReset /\ uart = SerialNew /\ soft = SoftReset /\ twi = TwiIdle /\ rxq = RxEmpty

PureReset ==
    /\ trip = NoTrip /\ sweep = NoSweep /\ handed = <<>> /\ halted = FALSE
    /\ readBack = NoRead /\ wait = NoWait /\ PeriphReset

\* an ISR that programs every pulse for the default width
PulseTicksDefault(servo) == (DEFAULT_PULSE_WIDTH * TICKS_PER_US) % U16

\* __vector_11: ticks = servo.pulse_width * TICKS_PER_US, a u16
PulseTicks(servo) == (servo.pulse_width * TICKS_PER_US) % U16

\* a scan that begins at the current slot instead of the one above it
NextServoFromCurrent(servos, cur) ==
    LET cands == {j \in Attached(servos) : j >= cur}
    IN  IF cands = {} THEN SERVOS_PER_TIMER ELSE SetMin(cands)

\* The slot whose pulse the ISR starts after ending the pulse of slot cur:
\* the first attached slot above cur, or SERVOS_PER_TIMER when there is none
NextServo(servos, cur) ==
    LET cands == {j \in Attached(servos) : j > cur}
    IN  IF cands = {} THEN SERVOS_PER_TIMER ELSE SetMin(cands)

\* a gap computed with a wrapping u32 subtraction instead of saturating_sub
GapTicksWrapping(servos) ==
    LET total == SetSum(PulseWidths(servos), Attached(servos))
    IN  ((REFRESH_INTERVAL - total) * TICKS_PER_US) % U16

\* The frame gap the ISR programs, in timer ticks
GapTicks(servos) ==
    LET total     == SetSum(PulseWidths(servos), Attached(servos))
        remaining == IF total >= REFRESH_INTERVAL THEN 0 ELSE REFRESH_INTERVAL - total
    IN  (remaining * TICKS_PER_US) % U16

\* __vector_11: Timer1 compare match A. A firing while no pulse is in flight
\* (the gap has expired, or nothing was programmed yet) begins a new frame.
Vector11 ==
    /\ UNCHANGED pureVars
    /\ UNCHANGED <<irqVars, pcintVars>>
    /\ UNCHANGED <<clockVars, clockObs, csStack>>
    /\ UNCHANGED toneVars
    /\ iflag
    /\ OCIE1A \in TIMSK1
    /\ LET cur    == CURRENT_SERVO_INDEX
           ended  == IF SERVOS[cur].some /\ SERVOS[cur].is_attached
                     THEN DigitalWrite(Ports, SERVOS[cur].pin, FALSE)
                     ELSE Ports
           next   == NextServo(SERVOS, cur)
           fresh  == phase # "pulse"
           watch  == fresh \/ stable
           log    == IF fresh THEN <<>> ELSE frameLog
           ticks  == IF fresh THEN 0 ELSE frameTicks
       IN  /\ stable' = watch
           /\ IF next < SERVOS_PER_TIMER
              THEN LET p == DigitalWrite(ended, SERVOS[next].pin, TRUE)
                       t == PulseTicks(SERVOS[next])
                   IN  /\ PORTB' = p.B /\ PORTD' = p.D
                       /\ OCR1A' = t
                       /\ CURRENT_SERVO_INDEX' = next
                       /\ phase' = "pulse"
                       /\ frameLog' = IF watch THEN Append(log, next) ELSE <<>>
                       /\ frameTicks' = IF watch THEN ticks + t ELSE 0
              ELSE /\ PORTB' = ended.B /\ PORTD' = ended.D
                   /\ OCR1A' = GapTicks(SERVOS)
                   /\ CURRENT_SERVO_INDEX' = 0
                   /\ phase' = "gap"
                   /\ frameLog' = IF watch THEN log ELSE <<>>
                   /\ frameTicks' = IF watch THEN ticks + GapTicks(SERVOS) ELSE 0
    /\ UNCHANGED <<SERVOS, SERVO_COUNT, TIMER_INITIALIZED, SERVO_FRAME_CYCLE_ACTIVE,
                   TCCR1B, TIMSK1, iflag, DDRB, DDRD, watched, wrote>>

(***************************************************************************)
(* Critical sections: critical_section::with, implemented by avr-device    *)
(* (lib.rs: extern crate avr_device): acquire saves SREG and clears I,     *)
(* release writes the saved SREG back.                                     *)
(***************************************************************************)
\* Bound: depth of the critical sections the caller itself has open
MaxNest == 1

CsAcquire(stack, i) == [stack |-> Append(stack, i), iflag |-> FALSE]
CsRelease(stack)    == [stack |-> SubSeq(stack, 1, Len(stack) - 1),
                        iflag |-> stack[Len(stack)]]

(***************************************************************************)
(* time.rs                                                                 *)
(***************************************************************************)
MICROSECONDS_PER_TIMER0_OVERFLOW == 1024
MILLIS_INC == 1
FRACT_INC  == 3
FRACT_MAX  == 125
TOIE0      == 0                 \* TIMSK0 bit
TOV0       == 0                 \* TIFR0 bit
TCNT0_TOP  == 255               \* 8-bit counter
NoResult   == -1

\* Bound: Timer0 overflows counted in the specification of micros()
MaxOverflows == 3
\* Bound: Timer0 overflows counted in the specification of millis()
MaxMillisOverflows == 130

\* The counter values at which Timer0 is observed: the counter runs from one
\* to the next, a single tick where they are adjacent.
TcntStops == {0, 1, 254, 255}
NextStop(t) ==
    IF \E u \in TcntStops : u > t THEN SetMin({u \in TcntStops : u > t})
    ELSE SetMin(TcntStops)

\* an enabled Timer0 overflow interrupt is pending and the I bit is set: the
\* CPU takes it before the foreground goes on
Timer0IrqReady == iflag /\ TOIE0 \in TIMSK0 /\ TOV0 \in TIFR0

MicIdle == [pc |-> "idle", overflows |-> 0, tcnt |-> 0, tifr |-> {}, ticked |-> FALSE,
            entry |-> FALSE]

\* init_timer: prescaler 64, overflow interrupt, sei
InitTimer ==
    /\ TCCR0B' = TCCR0B \cup {0, 1}
    /\ TIMSK0' = {TOIE0}
    /\ iflag' = TRUE

\* A short stretch of code: micros() between its cli and its sei, and the few
\* cycles from the I bit being set with an overflow pending to the entry of
\* the handler. It is shorter than the 64 CPU cycles of one tick.
ShortStretch == mic.pc \in {"read_tcnt", "read_tifr"} \/ Timer0IrqReady

\* Timer0 counts on to the next observed value; wrapping sets TOV0. Within a
\* short stretch the counter advances by at most one tick.
Timer0Advance ==
    /\ UNCHANGED pureVars
    /\ UNCHANGED <<irqVars, pcintVars>>
    /\ TCCR0B # {}
    /\ LET next == NextStop(TCNT0)
           wrap == next < TCNT0
       IN  /\ ShortStretch => (~mic.ticked /\ next = (TCNT0 + 1) % (TCNT0_TOP + 1))
           /\ wrap => TIMER0_OVERFLOW_COUNT < MaxOverflows
           /\ TCNT0' = next
           /\ TIFR0' = IF wrap THEN TIFR0 \cup {TOV0} ELSE TIFR0
           /\ mic' = IF ShortStretch THEN [mic EXCEPT !.ticked = TRUE] ELSE mic
    /\ UNCHANGED <<TCCR0B, TIMSK0, TIMER0_OVERFLOW_COUNT, TIMER0_MILLIS, TIMER0_FRACT>>
    /\ UNCHANGED <<cpuVars, servoVars, servoObs, toneVars, clockObs, csStack>>

\* A whole period of Timer0 (256 ticks) elapses: the counter is back at its
\* value and TOV0 is set
Timer0Period ==
    /\ UNCHANGED pureVars
    /\ UNCHANGED <<irqVars, pcintVars>>
    /\ TCCR0B # {}
    /\ TIMER0_OVERFLOW_COUNT < MaxMillisOverflows
    /\ TIFR0' = TIFR0 \cup {TOV0}
    /\ UNCHANGED <<TCCR0B, TIMSK0, TCNT0, TIMER0_OVERFLOW_COUNT, TIMER0_MILLIS,
                   TIMER0_FRACT, mic>>
    /\ UNCHANGED <<cpuVars, servoVars, servoObs, toneVars, clockObs, csStack>>

\* __vector_16 that carries only once the accumulator exceeds FRACT_MAX
Vector16HandlerLateCarry(c) ==
    LET fract  == (c.fract + FRACT_INC) % 256
        millis == c.millis + MILLIS_INC
    IN  IF fract > FRACT_MAX
        THEN [fract |-> fract - FRACT_MAX, millis |-> millis + 1, count |-> c.count + 1]
        ELSE [fract |-> fract, millis |-> millis, count |-> c.count + 1]

\* __vector_16 that adds the extra millisecond and leaves the accumulator as it is
Vector16HandlerKeepsFract(c) ==
    LET fract  == (c.fract + FRACT_INC) % 256
        millis == c.millis + MILLIS_INC
    IN  IF fract >= FRACT_MAX
        THEN [fract |-> fract, millis |-> millis + 1, count |-> c.count + 1]
        ELSE [fract |-> fract, millis |-> millis, count |-> c.count + 1]

\* The body of __vector_16 on [fract, millis, count]
Vector16Handler(c) ==
    LET fract  == (c.fract + FRACT_INC) % 256
        millis == c.millis + MILLIS_INC
    IN  IF fract >= FRACT_MAX
        THEN [fract |-> fract - FRACT_MAX, millis |-> millis + 1, count |-> c.count + 1]
        ELSE [fract |-> fract, millis |-> millis, count |-> c.count + 1]

\* __vector_16: Timer0 overflow; the hardware clears TOV0 on entry and the
\* return from the handler sets the I bit
Vector16 ==
    /\ UNCHANGED pureVars
    /\ UNCHANGED <<irqVars, pcintVars>>
    /\ Timer0IrqReady
    /\ LET n == Vector16Handler([fract |-> TIMER0_FRACT, millis |-> TIMER0_MILLIS,
                                 count |-> TIMER0_OVERFLOW_COUNT])
       IN  /\ TIMER0_FRACT' = n.fract
           /\ TIMER0_MILLIS' = n.millis
           /\ TIMER0_OVERFLOW_COUNT' = n.count
    /\ TIFR0' = TIFR0 \ {TOV0}
    /\ mic' = [mic EXCEPT !.ticked = FALSE]
    /\ UNCHANGED <<TCCR0B, TIMSK0, TCNT0>>
    /\ UNCHANGED <<cpuVars, servoVars, servoObs, toneVars, clockObs, csStack>>

\* millis(): cli, read TIMER0_MILLIS, sei
Millis ==
    /\ UNCHANGED pureVars
    /\ UNCHANGED <<irqVars, pcintVars>>
    /\ mic.pc = "idle"
    /\ ~Timer0IrqReady
    /\ millisSeen' = [n |-> TIMER0_OVERFLOW_COUNT, m |-> TIMER0_MILLIS]
    /\ iflag' = TRUE
    /\ UNCHANGED <<PORTB, PORTD, DDRB, DDRD, lastMicros>>
    /\ UNCHANGED <<servoVars, servoObs, toneVars, clockVars, csStack>>

\* micros(): cli, read TIMER0_OVERFLOW_COUNT
MicrosEnter ==
    /\ UNCHANGED pureVars
    /\ UNCHANGED <<irqVars, pcintVars>>
    /\ mic.pc = "idle"
    /\ ~Timer0IrqReady
    /\ mic' = [pc |-> "read_tcnt", overflows |-> TIMER0_OVERFLOW_COUNT, tcnt |-> 0,
               tifr |-> {}, ticked |-> FALSE, entry |-> iflag]
    /\ iflag' = FALSE
    /\ UNCHANGED <<PORTB, PORTD, DDRB, DDRD>>
    /\ UNCHANGED <<TCCR0B, TIMSK0, TIFR0, TCNT0, TIMER0_OVERFLOW_COUNT, TIMER0_MILLIS,
                   TIMER0_FRACT>>
    /\ UNCHANGED <<servoVars, servoObs, toneVars, clockObs, csStack>>

\* micros(): read TCNT0
MicrosReadTcnt ==
    /\ UNCHANGED pureVars
    /\ UNCHANGED <<irqVars, pcintVars>>
    /\ mic.pc = "read_tcnt"
    /\ mic' = [mic EXCEPT !.pc = "read_tifr", !.tcnt = TCNT0]
    /\ UNCHANGED <<TCCR0B, TIMSK0, TIFR0, TCNT0, TIMER0_OVERFLOW_COUNT, TIMER0_MILLIS,
                   TIMER0_FRACT>>
    /\ UNCHANGED <<cpuVars, servoVars, servoObs, toneVars, clockObs, csStack>>

\* micros(): read TIFR0, sei
MicrosReadTifr ==
    /\ UNCHANGED pureVars
    /\ UNCHANGED <<irqVars, pcintVars>>
    /\ mic.pc = "read_tifr"
    /\ mic' = [mic EXCEPT !.pc = "compute", !.tifr = TIFR0,
                          !.ticked = IF TOIE0 \in TIMSK0 /\ TOV0 \in TIFR0 THEN @ ELSE FALSE]
    /\ iflag' = TRUE
    /\ UNCHANGED <<PORTB, PORTD, DDRB, DDRD>>
    /\ UNCHANGED <<TCCR0B, TIMSK0, TIFR0, TCNT0, TIMER0_OVERFLOW_COUNT, TIMER0_MILLIS,
                   TIMER0_FRACT>>
    /\ UNCHANGED <<servoVars, servoObs, toneVars, clockObs, csStack>>

\* micros() without the compensation for a pending overflow
MicrosValueUncompensated(overflows, tcnt, tifr) ==
    overflows * MICROSECONDS_PER_TIMER0_OVERFLOW + tcnt * 4

\* the value micros() computes from its three reads
MicrosValue(overflows, tcnt, tifr) ==
    LET adjusted == IF TOV0 \in tifr /\ tcnt < 255 THEN overflows + 1 ELSE overflows
    IN  adjusted * MICROSECONDS_PER_TIMER0_OVERFLOW + tcnt * 4

\* micros(): compute and return
MicrosReturn ==
    /\ UNCHANGED pureVars
    /\ UNCHANGED <<irqVars, pcintVars>>
    /\ mic.pc = "compute"
    /\ ~Timer0IrqReady
    /\ lastMicros' = MicrosValue(mic.overflows, mic.tcnt, mic.tifr)
    /\ mic' = MicIdle
    /\ UNCHANGED <<TCCR0B, TIMSK0, TIFR0, TCNT0, TIMER0_OVERFLOW_COUNT, TIMER0_MILLIS,
                   TIMER0_FRACT, millisSeen>>
    /\ UNCHANGED <<cpuVars, servoVars, servoObs, toneVars, csStack>>

\* the caller opens a critical section of its own
CsEnter ==
    /\ UNCHANGED pureVars
    /\ fg = "idle"
    /\ UNCHANGED <<irqVars, pcintVars>>
    /\ mic.pc = "idle"
    /\ ~Timer0IrqReady
    /\ Len(csStack) < MaxNest
    /\ csStack' = CsAcquire(csStack, iflag).stack
    /\ iflag' = CsAcquire(csStack, iflag).iflag
    /\ UNCHANGED <<PORTB, PORTD, DDRB, DDRD>>
    /\ UNCHANGED <<servoVars, servoObs, toneVars, clockVars, clockObs>>

\* the caller's critical section ends
CsExit ==
    /\ UNCHANGED pureVars
    /\ fg = "idle"
    /\ UNCHANGED <<irqVars, pcintVars>>
    /\ mic.pc = "idle"
    /\ ~Timer0IrqReady
    /\ csStack # <<>>
    /\ csStack' = CsRelease(csStack).stack
    /\ iflag' = CsRelease(csStack).iflag
    /\ UNCHANGED <<PORTB, PORTD, DDRB, DDRD>>
    /\ UNCHANGED <<servoVars, servoObs, toneVars, clockVars, clockObs>>

\* the statics and Timer0 registers after reset
ClockReset ==
    /\ TCCR0B = {} /\ TIMSK0 = {} /\ TIFR0 = {} /\ TCNT0 = 0
    /\ TIMER0_OVERFLOW_COUNT = 0 /\ TIMER0_MILLIS = 0 /\ TIMER0_FRACT = 0
    /\ mic = MicIdle
    /\ csStack = <<>>
    /\ lastMicros = NoResult
    /\ millisSeen = [n |-> 0, m |-> 0]

\* ... and after Peripherals::take() has called init_timer
ClockStarted ==
    /\ TCCR0B = {0, 1} /\ TIMSK0 = {TOIE0} /\ TIFR0 = {} /\ TCNT0 = 0
    /\ TIMER0_OVERFLOW_COUNT = 0 /\ TIMER0_MILLIS = 0 /\ TIMER0_FRACT = 0
    /\ mic = MicIdle
    /\ csStack = <<>>
    /\ lastMicros = NoResult
    /\ millisSeen = [n |-> 0, m |-> 0]

(***************************************************************************)
(* interrupt.rs, lib.rs                                                    *)
(***************************************************************************)
NoHandler  == 0
Handlers   == {1, 2}            \* the fn() values callers register
ExtSources == {0, 1}            \* ExternalInterrupt::Int0, Int1
Modes      == {1, 2}            \* InterruptMode::Change, Falling

\* the two mode bits of a source in EICRA (ISC00 = 0, ISC10 = 2)
ModeBits(eicra, interrupt) ==
    IF interrupt = 0 THEN eicra % 4 ELSE (eicra \div 4) % 4

\* attach_interrupt that stores the handler in the slot of INT0 always
StoreHandlerFirstSlot(handlers, interrupt, handler) ==
    [handlers EXCEPT ![0] = handler]

\* attach_interrupt: handlers[interrupt as usize] = Some(handler)
StoreHandler(handlers, interrupt, handler) ==
    [handlers EXCEPT ![interrupt] = handler]

\* attach_interrupt: the new EICRA, (eicra & !(0b11 << ISCx0)) | (mode << ISCx0)
SetModeBits(eicra, interrupt, mode) ==
    IF interrupt = 0
    THEN (eicra \div 4) * 4 + mode
    ELSE (eicra \div 16) * 16 + mode * 4 + (eicra % 4)

\* attach_interrupt, up to and including its sei: the closure is still open
AttachInterruptEnter(interrupt, mode, handler) ==
    /\ UNCHANGED pureVars
    /\ UNCHANGED takeVars
    /\ isr = "none"
    /\ fg = "idle"
    /\ csStack' = CsAcquire(csStack, iflag).stack
    /\ INTERRUPT_HANDLERS' = StoreHandler(INTERRUPT_HANDLERS, interrupt, handler)
    /\ EICRA' = SetModeBits(EICRA, interrupt, mode)
    /\ registered' = [registered EXCEPT ![interrupt] = handler]
    /\ UNCHANGED invoked
    /\ EIFR' = EIFR \ {interrupt}
    /\ EIMSK' = EIMSK \cup {interrupt}
    /\ iflag' = TRUE
    /\ fg' = "attach"
    /\ UNCHANGED <<PORTB, PORTD, DDRB, DDRD, TAKEN, savedEimsk, maskTouched>>
    /\ UNCHANGED <<servoVars, servoObs, toneVars, clockVars, clockObs, pcintVars>>

\* attach_interrupt: the closure ends and the critical section is released
AttachInterruptExit ==
    /\ UNCHANGED pureVars
    /\ UNCHANGED takeVars
    /\ isr = "none"
    /\ fg = "attach"
    /\ csStack' = CsRelease(csStack).stack
    /\ iflag' = CsRelease(csStack).iflag
    /\ fg' = "idle"
    /\ UNCHANGED <<PORTB, PORTD, DDRB, DDRD>>
    /\ UNCHANGED <<INTERRUPT_HANDLERS, EICRA, EIFR, EIMSK, TAKEN, savedEimsk, maskTouched>>
    /\ UNCHANGED irqObs
    /\ UNCHANGED <<servoVars, servoObs, toneVars, clockVars, clockObs, pcintVars>>

\* detach_interrupt that leaves EIMSK as it is
DetachMaskKept(eimsk, interrupt) == eimsk

\* what detach_interrupt writes to EIMSK
DetachMask(eimsk, interrupt) == eimsk \ {interrupt}

\* detach_interrupt: one critical section, interrupt state restored
DetachInterrupt(interrupt) ==
    /\ UNCHANGED pureVars
    /\ UNCHANGED takeVars
    /\ fg = "idle"
    /\ INTERRUPT_HANDLERS' = [INTERRUPT_HANDLERS EXCEPT ![interrupt] = NoHandler]
    /\ EIMSK' = DetachMask(EIMSK, interrupt)
    /\ registered' = [registered EXCEPT ![interrupt] = NoHandler]
    /\ UNCHANGED invoked
    /\ UNCHANGED <<EICRA, EIFR, TAKEN, fg, savedEimsk, maskTouched>>
    /\ UNCHANGED <<cpuVars, servoVars, servoObs, toneVars, clockVars, clockObs, csStack,
                   pcintVars>>

\* disable_interrupts: EIMSK = 0, the old value goes to the caller
DisableInterrupts ==
    /\ UNCHANGED pureVars
    /\ UNCHANGED takeVars
    /\ fg = "idle"
    /\ savedEimsk' = EIMSK
    /\ EIMSK' = {}
    /\ maskTouched' = TRUE
    /\ UNCHANGED <<INTERRUPT_HANDLERS, EICRA, EIFR, TAKEN, fg>>
    /\ UNCHANGED irqObs
    /\ UNCHANGED <<cpuVars, servoVars, servoObs, toneVars, clockVars, clockObs, csStack,
                   pcintVars>>

\* restore_interrupts(state), with the state disable_interrupts returned
RestoreInterrupts ==
    /\ UNCHANGED pureVars
    /\ UNCHANGED takeVars
    /\ fg = "idle"
    /\ maskTouched
    /\ EIMSK' = savedEimsk
    /\ UNCHANGED <<INTERRUPT_HANDLERS, EICRA, EIFR, TAKEN, fg, savedEimsk, maskTouched>>
    /\ UNCHANGED irqObs
    /\ UNCHANGED <<cpuVars, servoVars, servoObs, toneVars, clockVars, clockObs, csStack,
                   pcintVars>>

\* the INTx pin sees the configured edge: the hardware sets the flag
PinEdge(interrupt) ==
    /\ UNCHANGED pureVars
    /\ UNCHANGED takeVars
    /\ interrupt \notin EIFR
    /\ EIFR' = EIFR \cup {interrupt}
    /\ UNCHANGED <<INTERRUPT_HANDLERS, EICRA, EIMSK, TAKEN, fg, savedEimsk, maskTouched>>
    /\ UNCHANGED irqObs
    /\ UNCHANGED <<cpuVars, servoVars, servoObs, toneVars, clockVars, clockObs, csStack,
                   pcintVars>>

\* __vector_1 / __vector_2: the hardware clears the flag on entry,
\* handle_interrupt calls the handler if one is stored, the return sets I
ExtVector(interrupt) ==
    /\ UNCHANGED pureVars
    /\ UNCHANGED takeVars
    /\ iflag
    /\ interrupt \in EIMSK
    /\ interrupt \in EIFR
    /\ EIFR' = EIFR \ {interrupt}
    /\ invoked' = [source |-> interrupt, handler |-> INTERRUPT_HANDLERS[interrupt]]
    /\ UNCHANGED registered
    /\ iflag' = TRUE
    /\ UNCHANGED <<PORTB, PORTD, DDRB, DDRD>>
    /\ UNCHANGED <<INTERRUPT_HANDLERS, EICRA, EIMSK, TAKEN, fg, savedEimsk, maskTouched>>
    /\ UNCHANGED <<servoVars, servoObs, toneVars, clockVars, clockObs, csStack, pcintVars>>

\* Calls of Peripherals::take() that are followed
MaxTakes == 3

\* handlers (user functions) whose body calls Peripherals::take()
TakingHandlers == {2}

\* a take() that hands out the peripherals whatever TAKEN says
TakeResultAlwaysSome(taken) == "some"

\* what take() returns, from the value of TAKEN it reads
TakeResult(taken) == IF taken THEN "none" ELSE "some"

\* Peripherals::take() called by the foreground: check-and-set of TAKEN and
\* init_timer (which ends with sei); a call that finds TAKEN set returns None and
\* leaves everything as it was
TakeEnter ==
    /\ UNCHANGED pureVars
    /\ fg = "idle"
    /\ isr = "none"
    /\ Len(takeLog) < MaxTakes
    /\ takeLog' = Append(takeLog, [by |-> "main", result |-> TakeResult(TAKEN),
                                   init |-> TakeResult(TAKEN) = "some"])
    /\ UNCHANGED isr
    /\ IF TakeResult(TAKEN) = "none"
       THEN UNCHANGED <<iflag, csStack, TAKEN, fg, TCCR0B, TIMSK0>>
       ELSE /\ csStack' = CsAcquire(csStack, iflag).stack
            /\ TAKEN' = TRUE
            /\ InitTimer
            /\ fg' = "take"
    /\ UNCHANGED <<PORTB, PORTD, DDRB, DDRD>>
    /\ UNCHANGED <<TIFR0, TCNT0, TIMER0_OVERFLOW_COUNT, TIMER0_MILLIS, TIMER0_FRACT, mic>>
    /\ UNCHANGED <<INTERRUPT_HANDLERS, EICRA, EIFR, EIMSK, savedEimsk, maskTouched>>
    /\ UNCHANGED irqObs
    /\ UNCHANGED <<servoVars, servoObs, toneVars, clockObs, pcintVars>>

\* __vector_1 / __vector_2 with a stored handler that calls Peripherals::take().
\* A call that finds TAKEN set returns None and the vector returns; otherwise
\* init_timer's sei leaves the handler interruptible until take() returns. The
\* critical section of take() saved I = 0, the state every vector starts in.
HandlerTake(interrupt) ==
    /\ UNCHANGED pureVars
    /\ iflag
    /\ interrupt \in EIMSK
    /\ interrupt \in EIFR
    /\ INTERRUPT_HANDLERS[interrupt] \in TakingHandlers
    /\ Len(takeLog) < MaxTakes
    /\ EIFR' = EIFR \ {interrupt}
    /\ invoked' = [source |-> interrupt, handler |-> INTERRUPT_HANDLERS[interrupt]]
    /\ UNCHANGED registered
    /\ takeLog' = Append(takeLog, [by |-> "handler", result |-> TakeResult(TAKEN),
                                   init |-> TakeResult(TAKEN) = "some"])
    /\ IF TakeResult(TAKEN) = "none"
       THEN /\ iflag' = TRUE
            /\ UNCHANGED <<TAKEN, isr, TCCR0B, TIMSK0>>
       ELSE /\ TAKEN' = TRUE
            /\ InitTimer
            /\ isr' = "take"
    /\ UNCHANGED <<PORTB, PORTD, DDRB, DDRD, csStack>>
    /\ UNCHANGED <<TIFR0, TCNT0, TIMER0_OVERFLOW_COUNT, TIMER0_MILLIS, TIMER0_FRACT, mic>>
    /\ UNCHANGED <<INTERRUPT_HANDLERS, EICRA, EIMSK, fg, savedEimsk, maskTouched>>
    /\ UNCHANGED <<servoVars, servoObs, toneVars, clockObs, pcintVars>>

\* the handler's take() returns Some, the handler ends, the return sets I
HandlerTakeExit ==
    /\ UNCHANGED pureVars
    /\ isr = "take"
    /\ isr' = "none"
    /\ iflag' = TRUE
    /\ UNCHANGED <<PORTB, PORTD, DDRB, DDRD, csStack, takeLog>>
    /\ UNCHANGED <<INTERRUPT_HANDLERS, EICRA, EIFR, EIMSK, TAKEN, fg, savedEimsk, maskTouched>>
    /\ UNCHANGED irqObs
    /\ UNCHANGED <<servoVars, servoObs, toneVars, clockVars, clockObs, pcintVars>>

\* Peripherals::take(): the peripherals are written, the closure ends
TakeExit ==
    /\ UNCHANGED pureVars
    /\ UNCHANGED takeVars
    /\ isr = "none"
    /\ fg = "take"
    /\ csStack' = CsRelease(csStack).stack
    /\ iflag' = CsRelease(csStack).iflag
    /\ fg' = "idle"
    /\ UNCHANGED <<PORTB, PORTD, DDRB, DDRD>>
    /\ UNCHANGED <<INTERRUPT_HANDLERS, EICRA, EIFR, EIMSK, TAKEN, savedEimsk, maskTouched>>
    /\ UNCHANGED irqObs
    /\ UNCHANGED <<servoVars, servoObs, toneVars, clockVars, clockObs, pcintVars>>

\* the statics and registers after reset
IrqReset ==
    /\ INTERRUPT_HANDLERS = [i \in ExtSources |-> NoHandler]
    /\ EICRA = 0
    /\ EIFR = {} /\ EIMSK = {}
    /\ TAKEN = FALSE
    /\ fg = "idle"
    /\ savedEimsk = {}
    /\ maskTouched = FALSE
    /\ invoked = [source |-> 0, handler |-> NoHandler]
    /\ registered = [i \in ExtSources |-> NoHandler]
    /\ isr = "none"
    /\ takeLog = <<>>

(***************************************************************************)
(* pcint.rs                                                                *)
(***************************************************************************)
Banks         == {0, 1, 2}
PcintPins     == {8, 9, 14, 20}
PcintHandlers == {1}
BankMasks     == {{0, 1}}

\* pin_to_pcint: [some, bank, bit]
PinToPcint(pin) ==
    IF pin <= 7 THEN [some |-> TRUE, bank |-> 2, bit |-> pin]
    ELSE IF pin <= 13 THEN [some |-> TRUE, bank |-> 0, bit |-> pin - 8]
    ELSE IF pin <= 19 THEN [some |-> TRUE, bank |-> 1, bit |-> pin - 14]
    ELSE [some |-> FALSE, bank |-> 0, bit |-> 0]

PcintAttach(pin, handler) ==
    /\ UNCHANGED pureVars
    /\ fg = "idle"
    /\ LET t == PinToPcint(pin)
       IN  IF t.some
           THEN /\ PCINT_HANDLERS' = [PCINT_HANDLERS EXCEPT ![t.bank] = handler]
                /\ PCMSK' = [PCMSK EXCEPT ![t.bank] = @ \cup {t.bit}]
                /\ PCICR' = PCICR \cup {t.bank}
           ELSE UNCHANGED <<PCINT_HANDLERS, PCMSK, PCICR>>
    /\ UNCHANGED PCIFR
    /\ UNCHANGED <<cpuVars, servoVars, servoObs, toneVars, clockVars, clockObs, csStack,
                   irqVars>>

PcintDetach(pin) ==
    /\ UNCHANGED pureVars
    /\ fg = "idle"
    /\ LET t == PinToPcint(pin)
       IN  IF t.some
           THEN /\ PCMSK' = [PCMSK EXCEPT ![t.bank] = @ \ {t.bit}]
                /\ PCICR' = IF PCMSK'[t.bank] = {} THEN PCICR \ {t.bank} ELSE PCICR
           ELSE UNCHANGED <<PCMSK, PCICR>>
    /\ UNCHANGED <<PCINT_HANDLERS, PCIFR>>
    /\ UNCHANGED <<cpuVars, servoVars, servoObs, toneVars, clockVars, clockObs, csStack,
                   irqVars>>

PcintEnableBank(bank, pin_mask, handler) ==
    /\ UNCHANGED pureVars
    /\ fg = "idle"
    /\ PCINT_HANDLERS' = [PCINT_HANDLERS EXCEPT ![bank] = handler]
    /\ PCMSK' = [PCMSK EXCEPT ![bank] = pin_mask]
    /\ PCICR' = PCICR \cup {bank}
    /\ UNCHANGED PCIFR
    /\ UNCHANGED <<cpuVars, servoVars, servoObs, toneVars, clockVars, clockObs, csStack,
                   irqVars>>

PcintDisableBank(bank) ==
    /\ UNCHANGED pureVars
    /\ fg = "idle"
    /\ PCMSK' = [PCMSK EXCEPT ![bank] = {}]
    /\ PCICR' = PCICR \ {bank}
    /\ UNCHANGED <<PCINT_HANDLERS, PCIFR>>
    /\ UNCHANGED <<cpuVars, servoVars, servoObs, toneVars, clockVars, clockObs, csStack,
                   irqVars>>

\* an enabled pin of the bank changes level: the hardware sets the flag
PinChange(bank) ==
    /\ UNCHANGED pureVars
    /\ PCMSK[bank] # {}
    /\ bank \notin PCIFR
    /\ PCIFR' = PCIFR \cup {bank}
    /\ UNCHANGED <<PCINT_HANDLERS, PCMSK, PCICR>>
    /\ UNCHANGED <<cpuVars, servoVars, servoObs, toneVars, clockVars, clockObs, csStack,
                   irqVars>>

\* _ivr_pcint0/1/2: calls the bank's handler if one is stored and clears the
\* flag; the return sets I
IvrPcint(bank) ==
    /\ UNCHANGED pureVars
    /\ iflag
    /\ bank \in PCICR
    /\ bank \in PCIFR
    /\ PCIFR' = PCIFR \ {bank}
    /\ iflag' = TRUE
    /\ UNCHANGED <<PORTB, PORTD, DDRB, DDRD>>
    /\ UNCHANGED <<PCINT_HANDLERS, PCMSK, PCICR>>
    /\ UNCHANGED <<servoVars, servoObs, toneVars, clockVars, clockObs, csStack, irqVars>>

PcintReset ==
    /\ PCINT_HANDLERS = [b \in Banks |-> NoHandler]
    /\ PCMSK = [b \in Banks |-> {}]
    /\ PCICR = {} /\ PCIFR = {}

(***************************************************************************)
(* tone.rs                                                                 *)
(***************************************************************************)
F_CPU      == 16000000
OCIE2A     == 1                 \* TIMSK2 bit
WGM21      == 1                 \* TCCR2A bit
PORTD_ADDR == 43                \* 0x2B
PORTB_ADDR == 37                \* 0x25
NoPin      == -1                \* TONE_PIN = None

\* PRESCALERS: (clock-select bits, divisor), in the order they are tried
PRESCALERS == << <<1, 1>>, <<2, 8>>, <<3, 32>>, <<4, 64>>, <<5, 128>>, <<6, 256>>,
                 <<7, 1024>> >>

\* Inputs of the foreground calls
TonePins      == {8, 9, 14}
ToneFreqs     == {0, 30, 440, 1000}
ToneDurations == {0, 3, 5}

\* calc_ocr for one divisor: F_CPU / frequency / 2 / prescaler
CalcOcr(frequency, prescaler) == ((F_CPU \div frequency) \div 2) \div prescaler

\* the selection without the break: the last divisor that fits
FirstFitNoBreak(frequency) ==
    LET fits == {k \in 1 .. Len(PRESCALERS) :
                    /\ CalcOcr(frequency, PRESCALERS[k][2]) > 0
                    /\ CalcOcr(frequency, PRESCALERS[k][2]) <= 256}
    IN  IF fits = {} THEN 0 ELSE CHOOSE k \in fits : \A j \in fits : j <= k

\* index in PRESCALERS of the first divisor whose calc_ocr lies in 1..256; 0 if none
FirstFit(frequency) ==
    LET fits == {k \in 1 .. Len(PRESCALERS) :
                    /\ CalcOcr(frequency, PRESCALERS[k][2]) > 0
                    /\ CalcOcr(frequency, PRESCALERS[k][2]) <= 256}
    IN  IF fits = {} THEN 0 ELSE SetMin(fits)

\* the value of the local ocr after the loop of tone()
ToneOcr(frequency) ==
    IF FirstFit(frequency) = 0 THEN 0
    ELSE CalcOcr(frequency, PRESCALERS[FirstFit(frequency)][2]) - 1

\* tone() gets past its two early returns
ToneStarts(pin, frequency) ==
    /\ frequency # 0
    /\ pin <= 13
    /\ ToneOcr(frequency) # 0

\* pin_to_output_port, pin_to_bit_mask (for the pins tone() lets through)
PinToOutputPort(pin) == IF pin <= 7 THEN PORTD_ADDR ELSE PORTB_ADDR
PinToBitMask(pin)    == {BitOf(pin)}

\* a toggle that ignores the mask: every bit of the port is inverted
PortXorWholePort(p, addr, mask) ==
    IF addr = PORTD_ADDR THEN [p EXCEPT !.D = (0 .. 7) \ @]
    ELSE IF addr = PORTB_ADDR THEN [p EXCEPT !.B = (0 .. 7) \ @]
    ELSE p

\* the register pair after port ^= mask / port &= !mask at address addr
PortXor(p, addr, mask) ==
    IF addr = PORTD_ADDR THEN [p EXCEPT !.D = (@ \ mask) \cup (mask \ @)]
    ELSE IF addr = PORTB_ADDR THEN [p EXCEPT !.B = (@ \ mask) \cup (mask \ @)]
    ELSE p

\* the read-modify-write left out: the register pair as it was
PortClearSkipped(p, addr, mask) == p

PortClear(p, addr, mask) ==
    IF addr = PORTD_ADDR THEN [p EXCEPT !.D = @ \ mask]
    ELSE IF addr = PORTB_ADDR THEN [p EXCEPT !.B = @ \ mask]
    ELSE p

\* tone(pin, frequency), applied to the toggle count that is current when it runs
ToneBody(pin, frequency) ==
    IF ToneStarts(pin, frequency)
    THEN /\ TONE_PIN' = pin
         /\ TONE_TOGGLE_COUNT' = 0
         /\ TONE_PORT' = PinToOutputPort(pin)
         /\ TONE_MASK' = PinToBitMask(pin)
         /\ LET d == PinModeOutput(Ddrs, pin) IN DDRB' = d.B /\ DDRD' = d.D
         /\ TCCR2A' = {WGM21}
         /\ TCCR2B' = PRESCALERS[FirstFit(frequency)][1]
         /\ OCR2A' = ToneOcr(frequency)
         /\ TIMSK2' = TIMSK2 \cup {OCIE2A}
         /\ iflag' = TRUE
         /\ UNCHANGED <<PORTB, PORTD>>
         /\ started' = [pin |-> pin,
                        earlier |-> (started.earlier \cup {started.pin}) \ {pin, NoPin},
                        fired |-> FALSE, stopped |-> FALSE]
    ELSE /\ UNCHANGED <<TONE_PIN, TONE_TOGGLE_COUNT, TONE_PORT, TONE_MASK,
                        TCCR2A, TCCR2B, OCR2A, TIMSK2, started>>
         /\ UNCHANGED cpuVars

NoPending == [some |-> FALSE, pin |-> 0, frequency |-> 0, toggles |-> 0]

\* tone(pin, frequency)
Tone(pin, frequency) ==
    /\ UNCHANGED pureVars
    /\ UNCHANGED <<irqVars, pcintVars>>
    /\ UNCHANGED <<clockVars, clockObs, csStack>>
    /\ tonePending.some = FALSE
    /\ ToneBody(pin, frequency)
    /\ UNCHANGED tonePending
    /\ UNCHANGED <<servoVars, servoObs>>

\* the toggle count tone_duration computes
Toggles(frequency, duration_ms) == (frequency * duration_ms * 2) \div 1000

\* tone_duration(pin, frequency, duration_ms) up to the end of its critical
\* section: the toggle count is stored
ToneDuration(pin, frequency, duration_ms) ==
    /\ UNCHANGED pureVars
    /\ UNCHANGED <<irqVars, pcintVars>>
    /\ UNCHANGED <<clockVars, clockObs, csStack>>
    /\ tonePending.some = FALSE
    /\ IF frequency = 0 \/ duration_ms = 0
       THEN UNCHANGED <<TONE_TOGGLE_COUNT, tonePending>>
       ELSE /\ TONE_TOGGLE_COUNT' = Toggles(frequency, duration_ms)
            /\ tonePending' = [some |-> TRUE, pin |-> pin, frequency |-> frequency,
                               toggles |-> Toggles(frequency, duration_ms)]
    /\ UNCHANGED <<TONE_PIN, TONE_PORT, TONE_MASK, TCCR2A, TCCR2B, OCR2A, TIMSK2>>
    /\ UNCHANGED started
    /\ UNCHANGED <<cpuVars, servoVars, servoObs>>

\* tone_duration: the call of tone(pin, frequency) that ends it
ToneDurationStart ==
    /\ UNCHANGED pureVars
    /\ UNCHANGED <<irqVars, pcintVars>>
    /\ UNCHANGED <<clockVars, clockObs, csStack>>
    /\ tonePending.some
    /\ ToneBody(tonePending.pin, tonePending.frequency)
    /\ tonePending' = NoPending
    /\ UNCHANGED <<servoVars, servoObs>>

\* no_tone(pin)
NoTone(pin) ==
    /\ UNCHANGED pureVars
    /\ UNCHANGED <<irqVars, pcintVars>>
    /\ UNCHANGED <<clockVars, clockObs, csStack>>
    /\ tonePending.some = FALSE
    /\ IF TONE_PIN = pin
       THEN /\ TIMSK2' = TIMSK2 \ {OCIE2A}
            /\ LET p == PortClear(Ports, TONE_PORT, TONE_MASK)
               IN  PORTB' = p.B /\ PORTD' = p.D
            /\ TONE_PIN' = NoPin
            /\ TONE_TOGGLE_COUNT' = 0
            /\ started' = [started EXCEPT !.stopped = TRUE]
       ELSE UNCHANGED <<TIMSK2, PORTB, PORTD, TONE_PIN, TONE_TOGGLE_COUNT, started>>
    /\ UNCHANGED <<TONE_PORT, TONE_MASK, TCCR2A, TCCR2B, OCR2A, tonePending>>
    /\ UNCHANGED <<iflag, DDRB, DDRD, servoVars, servoObs>>

\* __vector_7: Timer2 compare match A
Vector7 ==
    /\ UNCHANGED pureVars
    /\ UNCHANGED <<irqVars, pcintVars>>
    /\ UNCHANGED <<clockVars, clockObs, csStack>>
    /\ iflag
    /\ OCIE2A \in TIMSK2
    /\ LET toggled == PortXor(Ports, TONE_PORT, TONE_MASK)
           expired == TONE_TOGGLE_COUNT = 1
           p       == IF expired THEN PortClear(toggled, TONE_PORT, TONE_MASK)
                      ELSE toggled
       IN  /\ PORTB' = p.B /\ PORTD' = p.D
           /\ TONE_TOGGLE_COUNT' = IF TONE_TOGGLE_COUNT > 0
                                   THEN TONE_TOGGLE_COUNT - 1 ELSE TONE_TOGGLE_COUNT
           /\ TIMSK2' = IF expired THEN TIMSK2 \ {OCIE2A} ELSE TIMSK2
           /\ TONE_PIN' = IF expired THEN NoPin ELSE TONE_PIN
    /\ started' = [started EXCEPT !.fired = TRUE]
    /\ UNCHANGED <<TONE_PORT, TONE_MASK, TCCR2A, TCCR2B, OCR2A, tonePending>>
    /\ UNCHANGED <<iflag, DDRB, DDRD, servoVars, servoObs>>

\* the statics and Timer2 registers after reset
ToneReset ==
    /\ TONE_PIN = NoPin /\ TONE_TOGGLE_COUNT = 0 /\ TONE_PORT = 0 /\ TONE_MASK = {}
    /\ TCCR2A = {} /\ TCCR2B = 0 /\ OCR2A = 0 /\ TIMSK2 = {}
    /\ tonePending = NoPending
    /\ started = [pin |-> NoPin, earlier |-> {}, fired |-> FALSE, stopped |-> FALSE]

ToneInit ==
    /\ iflag = FALSE
    /\ PORTB = {} /\ PORTD = {} /\ DDRB = {} /\ DDRD = {}
    /\ ToneReset
    /\ ServoReset
    /\ ClockReset
    /\ IrqReset
    /\ PcintReset
    /\ PureReset

ToneNext ==
    \/ \E pin \in TonePins, f \in ToneFreqs : Tone(pin, f)
    \/ \E pin \in TonePins, f \in ToneFreqs, d \in ToneDurations : ToneDuration(pin, f, d)
    \/ ToneDurationStart
    \/ \E pin \in TonePins : NoTone(pin)
    \/ Vector7

SpecTone == ToneInit /\ [][ToneNext]_vars

\* tone() on its own: one call from reset, the pin and the frequency (a u16) drawn
\* at the start
SweepPins  == 0 .. 13
SweepFreqs == 1 .. 65535

ToneSweep ==
    /\ sweep.called = FALSE
    /\ ToneBody(sweep.pin, sweep.frequency)
    /\ sweep' = [sweep EXCEPT !.called = TRUE]
    /\ UNCHANGED <<trip, handed, halted, readBack, wait, pwm, uart, soft, twi, rxq>>
    /\ UNCHANGED tonePending
    /\ UNCHANGED <<servoVars, servoObs, clockVars, clockObs, csStack, irqVars, pcintVars>>

SweepInit ==
    /\ iflag = FALSE
    /\ PORTB = {} /\ PORTD = {} /\ DDRB = {} /\ DDRD = {}
    /\ ServoReset /\ ToneReset /\ ClockReset /\ IrqReset /\ PcintReset
    /\ trip = NoTrip /\ handed = <<>> /\ halted = FALSE /\ readBack = NoRead /\ wait = NoWait /\ PeriphReset
    /\ \E pin \in SweepPins, f \in SweepFreqs :
          sweep = [pin |-> pin, frequency |-> f, called |-> FALSE]

SweepNext == ToneSweep

SpecToneSweep == SweepInit /\ [][SweepNext]_vars

(***************************************************************************)
(* Specifications of the clock                                             *)
(***************************************************************************)
ClockInit ==
    /\ iflag = TRUE
    /\ PORTB = {} /\ PORTD = {} /\ DDRB = {} /\ DDRD = {}
    /\ ServoReset
    /\ ToneReset
    /\ ClockStarted
    /\ IrqReset
    /\ PcintReset
    /\ PureReset

ClockNext ==
    \/ Timer0Advance
    \/ Vector16
    \/ Millis
    \/ MicrosEnter
    \/ MicrosReadTcnt
    \/ MicrosReadTifr
    \/ MicrosReturn
    \/ CsEnter
    \/ CsExit

SpecClock == ClockInit /\ [][ClockNext]_vars

MillisNext ==
    \/ Timer0Period
    \/ Vector16
    \/ Millis

SpecMillis == ClockInit /\ [][MillisNext]_vars

\* C6: millis() and micros() leave the interrupt-enable state as it was at
\* the call: called with interrupts disabled, they end with interrupts
\* disabled.
C6_ClockRestoresInterruptState ==
    [][/\ Millis => iflag' = iflag
       /\ MicrosReadTifr => iflag' = mic.entry]_vars

\* (the unsigned 32-bit results stay far below 2^32 within MaxOverflows: no
\* wraparound between the two calls)
\* C7: a micros() call never computes less than the call before it returned,
\* whatever TCNT0 and TOV0 are, a pending unserviced overflow included.
C7_MicrosMonotonic ==
    (mic.pc = "compute" /\ lastMicros # NoResult)
        => MicrosValue(mic.overflows, mic.tcnt, mic.tifr) >= lastMicros

\* a second call that read a pending overflow with TCNT0 just wrapped, after
\* a call that returned a value of the period before
C7_SecondCallSeesPendingOverflow ==
    /\ mic.pc = "compute"
    /\ lastMicros # NoResult /\ lastMicros > 0
    /\ TOV0 \in mic.tifr /\ mic.tcnt < TCNT0_TOP
    /\ mic.overflows * MICROSECONDS_PER_TIMER0_OVERFLOW + mic.tcnt * 4 < lastMicros

\* C8: millis() called after N overflow interrupts returns
\* floor(N * 1024 / 1000) (N up to MaxMillisOverflows: no wrap of the u32).
C8_MillisIsScaledOverflowCount ==
    millisSeen.m = (millisSeen.n * MICROSECONDS_PER_TIMER0_OVERFLOW) \div 1000

\* millis() returned after the fractional accumulator has carried three times
C8_MillisAfterThreeCarries ==
    millisSeen.n = 125 /\ millisSeen.m = 128

(***************************************************************************)
(* Specifications of the interrupt registries                              *)
(***************************************************************************)
IrqInit ==
    /\ iflag = FALSE
    /\ PORTB = {} /\ PORTD = {} /\ DDRB = {} /\ DDRD = {}
    /\ ServoReset
    /\ ToneReset
    /\ ClockReset
    /\ IrqReset
    /\ PcintReset
    /\ PureReset

ExtIntNext ==
    \/ \E i \in ExtSources, m \in Modes, h \in Handlers : AttachInterruptEnter(i, m, h)
    \/ AttachInterruptExit
    \/ \E i \in ExtSources : DetachInterrupt(i)
    \/ DisableInterrupts
    \/ RestoreInterrupts
    \/ \E i \in ExtSources : PinEdge(i)
    \/ \E i \in ExtSources : ExtVector(i)
    \/ TakeEnter
    \/ TakeExit
    \/ CsEnter
    \/ CsExit

SpecExtInt == IrqInit /\ [][ExtIntNext]_vars

\* Peripherals::take() from the foreground and from handlers attached with
\* attach_interrupt
TakeNext ==
    \/ TakeEnter
    \/ TakeExit
    \/ \E i \in ExtSources, m \in Modes, h \in Handlers : AttachInterruptEnter(i, m, h)
    \/ AttachInterruptExit
    \/ \E i \in ExtSources : PinEdge(i)
    \/ \E i \in ExtSources : INTERRUPT_HANDLERS[i] \notin TakingHandlers /\ ExtVector(i)
    \/ \E i \in ExtSources : HandlerTake(i)
    \/ HandlerTakeExit

SpecTake == IrqInit /\ [][TakeNext]_vars

PcintNext ==
    \/ \E pin \in PcintPins, h \in PcintHandlers : PcintAttach(pin, h)
    \/ \E pin \in PcintPins : PcintDetach(pin)
    \/ \E b \in Banks, m \in BankMasks, h \in PcintHandlers : PcintEnableBank(b, m, h)
    \/ \E b \in Banks : PcintDisableBank(b)
    \/ \E b \in Banks : PinChange(b)
    \/ \E b \in Banks : IvrPcint(b)
    \/ \E i \in ExtSources, m \in Modes : AttachInterruptEnter(i, m, 1)
    \/ AttachInterruptExit
    \/ \E i \in ExtSources : DetachInterrupt(i)

SpecPcint == IrqInit /\ [][PcintNext]_vars

\* C5: the I flag is clear for as long as a critical section is open: no
\* handler can run between the check-and-set of TAKEN in take() and the end
\* of its closure, nor inside the closure of attach_interrupt, nested or not.
C5_InterruptsOffInCriticalSection ==
    csStack # <<>> => ~iflag

\* C9: the EIMSK bit of INTx is set if and only if the handler slot of INTx
\* holds a handler.
C9_MaskBitIffHandler ==
    \A i \in ExtSources : (i \in EIMSK) <=> (INTERRUPT_HANDLERS[i] # NoHandler)

\* C9 (amended): as long as disable_interrupts has not been called, the
\* EIMSK bit of INTx is set if and only if the handler slot of INTx holds a
\* handler.
C9_MaskBitIffHandlerUnlessMasked ==
    ~maskTouched => C9_MaskBitIffHandler

\* INT0 attached, INT1 attached and detached again, the mask never touched
C9_AttachedAndDetached ==
    /\ ~maskTouched
    /\ fg = "idle"
    /\ INTERRUPT_HANDLERS[0] # NoHandler /\ 0 \in EIMSK
    /\ INTERRUPT_HANDLERS[1] = NoHandler /\ 1 \notin EIMSK /\ ModeBits(EICRA, 1) # 0

\* C11: a firing of the INT0 or INT1 vector calls exactly the handler of the
\* most recent attach_interrupt for that source not followed by a
\* detach_interrupt, and none if there is no such registration; attaching to
\* one source leaves the handler, mode bits and enable bit of the other alone.
C11_DispatchesRegisteredHandler ==
    [][/\ \A i \in ExtSources :
            ExtVector(i) => invoked' = [source |-> i, handler |-> registered[i]]
       /\ \A i \in ExtSources, m \in Modes, h \in Handlers :
            AttachInterruptEnter(i, m, h) =>
                /\ INTERRUPT_HANDLERS'[1 - i] = INTERRUPT_HANDLERS[1 - i]
                /\ ModeBits(EICRA', 1 - i) = ModeBits(EICRA, 1 - i)
                /\ ((1 - i) \in EIMSK') <=> ((1 - i) \in EIMSK)]_vars

\* the INT1 vector has called handler 2 while INT0 holds handler 1 in another
\* mode
C11_Int1CalledItsHandler ==
    /\ invoked = [source |-> 1, handler |-> 2]
    /\ registered = (0 :> 1 @@ 1 :> 2)
    /\ INTERRUPT_HANDLERS = registered
    /\ ModeBits(EICRA, 0) = 1 /\ ModeBits(EICRA, 1) = 2
    /\ EIMSK = {0, 1}

\* C10: detach_interrupt leaves the slot empty and the EIMSK bit clear;
\* pcint_detach of the last enabled pin of a bank, and pcint_disable_bank,
\* leave the bank's handler slot empty and its PCICR bit clear.
C10_DetachClearsSlotAndMask ==
    [][/\ \A i \in ExtSources :
            DetachInterrupt(i) => (INTERRUPT_HANDLERS'[i] = NoHandler /\ i \notin EIMSK')
       /\ \A pin \in PcintPins :
            (PcintDetach(pin) /\ PinToPcint(pin).some
                /\ PCMSK[PinToPcint(pin).bank] # {} /\ PCMSK'[PinToPcint(pin).bank] = {})
              => (PCINT_HANDLERS'[PinToPcint(pin).bank] = NoHandler
                    /\ PinToPcint(pin).bank \notin PCICR')
       /\ \A b \in Banks :
            PcintDisableBank(b) => (PCINT_HANDLERS'[b] = NoHandler /\ b \notin PCICR')]_vars

\* C3: when tone_duration(pin, f, d) with pin <= 13, f >= 31 and d > 0 starts
\* the timer, the toggle countdown holds floor(f * d * 2 / 1000).
C3_BoundedToneCountsDown ==
    [][(ToneDurationStart /\ ToneStarts(tonePending.pin, tonePending.frequency))
          => TONE_TOGGLE_COUNT' = tonePending.toggles]_vars

(***************************************************************************)
(* Specification of the servo scheduler                                    *)
(***************************************************************************)
ServoInit ==
    /\ iflag = TRUE             \* Peripherals::take() has enabled interrupts
    /\ PORTB = {} /\ PORTD = {} /\ DDRB = {} /\ DDRD = {}
    /\ ServoReset
    /\ ToneReset
    /\ ClockStarted
    /\ IrqReset
    /\ PcintReset
    /\ PureReset

ServoNext ==
    \/ ServoNew
    \/ \E i \in 0 .. (MaxServos - 1), pin \in AttachPins : Attach(i, pin)
    \/ \E i \in 0 .. (MaxServos - 1), pin \in AttachPins, lim \in LimitPairs :
          AttachWithLimits(i, pin, lim[1], lim[2])
    \/ \E i \in 0 .. (MaxServos - 1) : Detach(i)
    \/ \E i \in 0 .. (MaxServos - 1), us \in WriteMicros : WriteMicroseconds(i, us)
    \/ Vector11

SpecServo == ServoInit /\ [][ServoNext]_vars

\* write / read round trip: the limits and the angle are drawn at the start
AngleInit ==
    /\ iflag = FALSE
    /\ PORTB = {} /\ PORTD = {} /\ DDRB = {} /\ DDRD = {}
    /\ ServoReset /\ ToneReset /\ ClockReset /\ IrqReset /\ PcintReset
    /\ \E lim \in TripLimits, a \in TripAngles :
          trip = [stage |-> "attached", servo |-> TripSlot(lim[1], lim[2]),
                  angle |-> a, back |-> 0]
    /\ sweep = NoSweep /\ handed = <<>> /\ halted = FALSE /\ readBack = NoRead /\ wait = NoWait /\ PeriphReset

AngleNext == TripWrite \/ TripRead

SpecAngle == AngleInit /\ [][AngleNext]_vars

\* The scheduler with every slot at the default limits
ServoPulseNext ==
    \/ ServoNew
    \/ \E i \in 0 .. (MaxServos - 1), pin \in AttachPins : Attach(i, pin)
    \/ \E i \in 0 .. (MaxServos - 1) : Detach(i)
    \/ \E i \in 0 .. (MaxServos - 1), us \in WriteMicros : WriteMicroseconds(i, us)
    \/ \E i \in 0 .. (MaxServos - 1), angle \in WriteAngles : WriteAngle(i, angle)
    \/ Vector11

SpecServoPulse == ServoInit /\ [][ServoPulseNext]_vars

\* The scheduler with wide limits and long pulses: slot i is attached on pin 9 + i
GapLimits == {<<1000, 30000>>}
GapMicros == {12000}

ServoGapNext ==
    \/ ServoNew
    \/ \E i \in 0 .. (MaxServos - 1), lim \in GapLimits :
          AttachWithLimits(i, 9 + i, lim[1], lim[2])
    \/ \E i \in 0 .. (MaxServos - 1), us \in GapMicros : WriteMicroseconds(i, us)
    \/ \E i \in 0 .. (MaxServos - 1) : Detach(i)
    \/ Vector11

SpecServoGap == ServoInit /\ [][ServoGapNext]_vars

\* The scheduler while the compare interrupt keeps being served: slot i is
\* attached on pin 9 + i, written and detached, in any order, and an enabled,
\* pending compare-match interrupt is eventually taken
ServoTurnNext ==
    \/ ServoNew
    \/ \E i \in 0 .. (MaxServos - 1) : Attach(i, 9 + i)
    \/ \E i \in 0 .. (MaxServos - 1), us \in WriteMicros : WriteMicroseconds(i, us)
    \/ \E i \in 0 .. (MaxServos - 1) : Detach(i)
    \/ Vector11

SpecServoTurn == ServoInit /\ [][ServoTurnNext]_vars /\ WF_vars(Vector11)

\* The calls of the servo_control example: attach with the default limits or with
\* 1000..2000 on pin 9 + i, write(angle)
DemoLimits == {<<1000, 2000>>}
DemoAngles == {0, 90}

ServoDemoNext ==
    \/ ServoNew
    \/ \E i \in 0 .. (MaxServos - 1) : Attach(i, 9 + i)
    \/ \E i \in 0 .. (MaxServos - 1), lim \in DemoLimits :
          AttachWithLimits(i, 9 + i, lim[1], lim[2])
    \/ \E i \in 0 .. (MaxServos - 1), angle \in DemoAngles : WriteAngle(i, angle)
    \/ Vector11

SpecServoDemo == ServoInit /\ [][ServoDemoNext]_vars

(***************************************************************************)
(* Bounded waits: pulse.rs pulse_in_long, i2c.rs wait_for_twint,           *)
(* serial.rs read_byte_timeout. A u32 is the pair of its 16-bit halves.    *)
(***************************************************************************)
Word(hi, lo) == [hi |-> hi, lo |-> lo]

\* a < b, a > b on u32
Less(a, b)    == a.hi < b.hi \/ (a.hi = b.hi /\ a.lo < b.lo)
Greater(a, b) == Less(b, a)

\* a.wrapping_add(d) for a small d
WrappingAdd(a, d) ==
    Word((a.hi + ((a.lo + d) \div U16)) % U16, (a.lo + d) % U16)

\* a.wrapping_sub(b)
WrappingSub(a, b) ==
    Word((a.hi - b.hi - (IF a.lo < b.lo THEN 1 ELSE 0)) % U16, (a.lo - b.lo) % U16)

\* a - b: with overflow checks compiled in, the subtraction panics when a < b;
\* without them it wraps
Minus(a, b, checks) ==
    IF checks /\ Less(a, b) THEN [panic |-> TRUE, value |-> Word(0, 0)]
    ELSE [panic |-> FALSE, value |-> WrappingSub(a, b)]

\* Inputs: the operation, the clock value read at the start, the caller's bound,
\* whether the build has overflow checks, and the clock advance between two polls
WaitOps    == {"pulse_in_long", "wait_for_twint", "read_byte_timeout"}
WaitStarts == {Word(0, 0), Word(0, 65534), Word(65535, 65533)}
WaitBounds == {Word(0, 2), Word(0, 4)}
WaitSteps  == {0, 1, 2}

\* what one pass of the polling loop decides from the clock value it reads
WaitCheck(w, now) ==
    IF w.op = "read_byte_timeout"
    THEN LET e == Minus(now, w.start, w.checks)
         IN  IF e.panic THEN "panic"
             ELSE IF ~Less(e.value, w.bound) THEN "timeout" ELSE "polling"
    ELSE IF Greater(WrappingSub(now, w.start), w.bound) THEN "timeout" ELSE "polling"

\* one pass of the loop while the awaited condition is still absent: the clock
\* has moved on, the elapsed time is compared with the bound
WaitPoll ==
    /\ wait.state = "polling"
    /\ \E d \in WaitSteps :
          LET now == WrappingAdd(wait.now, d)
          IN  wait' = [wait EXCEPT !.now = now, !.state = WaitCheck(wait, now)]
    /\ UNCHANGED <<trip, sweep, handed, halted, readBack, pwm, uart, soft, twi, rxq>>
    /\ UNCHANGED <<cpuVars, servoVars, servoObs, toneVars, clockVars, clockObs, csStack,
                   irqVars, pcintVars>>

\* the awaited condition holds when the loop tests it: the wait ends without
\* another look at the clock
WaitEnds ==
    /\ wait.state = "polling"
    /\ wait' = [wait EXCEPT !.state = "met"]
    /\ UNCHANGED <<trip, sweep, handed, halted, readBack, pwm, uart, soft, twi, rxq>>
    /\ UNCHANGED <<cpuVars, servoVars, servoObs, toneVars, clockVars, clockObs, csStack,
                   irqVars, pcintVars>>

WaitInit ==
    /\ iflag = TRUE
    /\ PORTB = {} /\ PORTD = {} /\ DDRB = {} /\ DDRD = {}
    /\ ServoReset /\ ToneReset /\ ClockStarted /\ IrqReset /\ PcintReset
    /\ trip = NoTrip /\ sweep = NoSweep /\ handed = <<>> /\ halted = FALSE
    /\ readBack = NoRead /\ PeriphReset
    /\ \E op \in WaitOps, start \in WaitStarts, bound \in WaitBounds, checks \in BOOLEAN :
          wait = [op |-> op, start |-> start, now |-> start, bound |-> bound,
                  checks |-> checks, state |-> "polling"]

WaitNext == WaitPoll \/ WaitEnds

SpecWait == WaitInit /\ [][WaitNext]_vars

(***************************************************************************)
(* pwm.rs: Timer0, D6 = OC0A and D5 = OC0B. Registers are sets of 1 bits.  *)
(***************************************************************************)
PwmPins   == {5, 6}
PwmFreqs  == {"Freq980Hz", "Freq3_9kHz", "Freq31kHz"}
PwmDuties == {64, 200}

\* the two COM0x bits of a pin's channel, and the one into_pwm sets
ComBits(pin)   == IF pin = 6 THEN {6, 7} ELSE {4, 5}
ComEnable(pin) == IF pin = 6 THEN 7 ELSE 5

\* the prescaler bits init_timer0 writes to TCCR0B
Prescaler0(freq) ==
    IF freq = "Freq980Hz" THEN {0, 1} ELSE IF freq = "Freq3_9kHz" THEN {1} ELSE {0}

\* init_timer0 drops the COM bits instead of keeping them
InitTimer0DropsCom(tccr0a) == {0, 1}

\* init_timer0: (tccr0a & 0xF0) | (1 << 0) | (1 << 1)
InitTimer0(tccr0a) == (tccr0a \cap {4, 5, 6, 7}) \cup {0, 1}

\* Pin<pin, mode::Output>::into_pwm(freq)
IntoPwm(pin, freq) ==
    /\ pwm.mode[pin] = "Output"
    /\ DDRD' = DDRD \cup {pin}
    /\ TCCR0B' = Prescaler0(freq)
    /\ pwm' = [pwm EXCEPT !.TCCR0A = InitTimer0(@) \cup {ComEnable(pin)},
                          !.mode[pin] = "Pwm",
                          !.last = <<"into_pwm", pin>>]
    /\ UNCHANGED <<iflag, PORTB, PORTD, DDRB>>
    /\ UNCHANGED <<TIMSK0, TIFR0, TCNT0, TIMER0_OVERFLOW_COUNT, TIMER0_MILLIS,
                   TIMER0_FRACT, mic>>
    /\ UNCHANGED <<trip, sweep, handed, halted, readBack, wait, uart, soft, twi, rxq>>
    /\ UNCHANGED <<servoVars, servoObs, toneVars, clockObs, csStack, irqVars, pcintVars>>

\* Pin<pin, Pwm>::set_duty(duty)
SetDuty(pin, duty) ==
    /\ pwm.mode[pin] = "Pwm"
    /\ pwm' = IF pin = 6
              THEN [pwm EXCEPT !.OCR0A = duty, !.last = <<"set_duty", pin>>]
              ELSE [pwm EXCEPT !.OCR0B = duty, !.last = <<"set_duty", pin>>]
    /\ UNCHANGED <<trip, sweep, handed, halted, readBack, wait, uart, soft, twi, rxq>>
    /\ UNCHANGED <<cpuVars, servoVars, servoObs, toneVars, clockVars, clockObs, csStack,
                   irqVars, pcintVars>>

\* Pin<pin, Pwm>::into_output()
IntoOutput(pin) ==
    /\ pwm.mode[pin] = "Pwm"
    /\ pwm' = [pwm EXCEPT !.TCCR0A = @ \ ComBits(pin),
                          !.mode[pin] = "Output",
                          !.last = <<"into_output", pin>>]
    /\ UNCHANGED <<trip, sweep, handed, halted, readBack, wait, uart, soft, twi, rxq>>
    /\ UNCHANGED <<cpuVars, servoVars, servoObs, toneVars, clockVars, clockObs, csStack,
                   irqVars, pcintVars>>

PwmNext ==
    \/ \E pin \in PwmPins, freq \in PwmFreqs : IntoPwm(pin, freq)
    \/ \E pin \in PwmPins, duty \in PwmDuties : SetDuty(pin, duty)
    \/ \E pin \in PwmPins : IntoOutput(pin)

SpecPwm == IrqInit /\ [][PwmNext]_vars

\* the same calls after Peripherals::take() has run init_timer
SpecPwmClock == ServoInit /\ [][PwmNext]_vars

(***************************************************************************)
(* serial.rs: the receive side. uart.rx is what the USART holds unread      *)
(* (RXC0 is set while it is not empty, a read of UDR0 takes its head);      *)
(* arrived and delivered record the bytes received and the bytes returned.  *)
(***************************************************************************)
\* Bound: at most MaxBytes bytes arrive
MaxBytes    == 3
SerialBytes == {65, 66}

\* a byte arrives on the line
SerialReceive(b) ==
    /\ Len(uart.arrived) < MaxBytes
    /\ uart' = [uart EXCEPT !.rx = Append(@, b), !.arrived = Append(@, b)]
    /\ UNCHANGED <<trip, sweep, handed, halted, readBack, wait, pwm, soft, twi, rxq>>
    /\ UNCHANGED <<cpuVars, servoVars, servoObs, toneVars, clockVars, clockObs, csStack,
                   irqVars, pcintVars>>

\* Serial::peek()
SerialPeek ==
    /\ uart' = IF uart.peek_byte # NoByte
               THEN [uart EXCEPT !.last = <<"peek", uart.peek_byte>>]
               ELSE IF uart.rx # <<>>
                    THEN [uart EXCEPT !.rx = Tail(@), !.peek_byte = Head(uart.rx),
                                      !.last = <<"peek", Head(uart.rx)>>]
                    ELSE [uart EXCEPT !.last = <<"peek", NoByte>>]
    /\ UNCHANGED <<trip, sweep, handed, halted, readBack, wait, pwm, soft, twi, rxq>>
    /\ UNCHANGED <<cpuVars, servoVars, servoObs, toneVars, clockVars, clockObs, csStack,
                   irqVars, pcintVars>>

\* Serial::read_byte(): spins until RXC0 is set, then returns UDR0
SerialReadByte ==
    /\ uart.rx # <<>>
    /\ uart' = [uart EXCEPT !.rx = Tail(@), !.delivered = Append(@, Head(uart.rx)),
                            !.last = <<"read_byte", Head(uart.rx)>>]
    /\ UNCHANGED <<trip, sweep, handed, halted, readBack, wait, pwm, soft, twi, rxq>>
    /\ UNCHANGED <<cpuVars, servoVars, servoObs, toneVars, clockVars, clockObs, csStack,
                   irqVars, pcintVars>>

\* Serial::read_byte_timeout(): the peeked byte if there is one, else the next
\* byte of the USART, else None when the timeout passes with nothing received
SerialReadByteTimeout ==
    /\ uart' = IF uart.peek_byte # NoByte
               THEN [uart EXCEPT !.peek_byte = NoByte,
                                 !.delivered = Append(@, uart.peek_byte),
                                 !.last = <<"read_byte_timeout", uart.peek_byte>>]
               ELSE IF uart.rx # <<>>
                    THEN [uart EXCEPT !.rx = Tail(@),
                                      !.delivered = Append(@, Head(uart.rx)),
                                      !.last = <<"read_byte_timeout", Head(uart.rx)>>]
                    ELSE [uart EXCEPT !.last = <<"read_byte_timeout", NoByte>>]
    /\ UNCHANGED <<trip, sweep, handed, halted, readBack, wait, pwm, soft, twi, rxq>>
    /\ UNCHANGED <<cpuVars, servoVars, servoObs, toneVars, clockVars, clockObs, csStack,
                   irqVars, pcintVars>>

SerialNext ==
    \/ \E b \in SerialBytes : SerialReceive(b)
    \/ SerialPeek
    \/ SerialReadByte
    \/ SerialReadByteTimeout

SpecSerial == IrqInit /\ [][SerialNext]_vars

(***************************************************************************)
(* software_serial.rs: new, begin, listen, end, is_listening. The bit       *)
(* timing fields begin() computes from the baud rate are left out.          *)
(***************************************************************************)
\* (rx_pin, tx_pin) pairs given to SoftwareSerial::new
SoftPins    == {<<2, 3>>, <<8, 9>>}
SoftInverse == {FALSE}

\* the pin change bank of enable_pcint / disable_pcint for a pin below 14
SoftBank(pin) == IF pin <= 7 THEN 2 ELSE 0

\* SoftwareSerial::new(rx_pin, tx_pin, inverse_logic)
SoftNew(rx_pin, tx_pin, inverse_logic) ==
    /\ soft.INSTANCE_COUNT < MaxInstances
    /\ soft' = [soft EXCEPT
                  !.INSTANCE_COUNT = @ + 1,
                  !.INSTANCES[soft.INSTANCE_COUNT] =
                      [some |-> TRUE, rx_pin |-> rx_pin, tx_pin |-> tx_pin,
                       inverse_logic |-> inverse_logic, is_listening |-> FALSE]]
    /\ UNCHANGED <<trip, sweep, handed, halted, readBack, wait, pwm, uart, twi, rxq>>
    /\ UNCHANGED <<cpuVars, servoVars, servoObs, toneVars, clockVars, clockObs, csStack,
                   irqVars, pcintVars>>

\* the body of listen(): inside one critical section
ListenBody(id) ==
    /\ soft' = [soft EXCEPT !.ACTIVE_INSTANCE = id,
                            !.INSTANCES[id].is_listening = TRUE]
    /\ LET pin == soft.INSTANCES[id].rx_pin
       IN  /\ PCMSK' = [PCMSK EXCEPT ![SoftBank(pin)] = @ \cup {BitOf(pin)}]
           /\ PCICR' = PCICR \cup {SoftBank(pin)}
    /\ UNCHANGED <<PCINT_HANDLERS, PCIFR>>

\* SoftwareSerial::listen() of instance id
SoftListen(id) ==
    /\ id < soft.INSTANCE_COUNT
    /\ ListenBody(id)
    /\ UNCHANGED <<trip, sweep, handed, halted, readBack, wait, pwm, uart, twi, rxq>>
    /\ UNCHANGED <<cpuVars, servoVars, servoObs, toneVars, clockVars, clockObs, csStack,
                   irqVars>>

\* SoftwareSerial::begin(baud) of instance id: TX an output at its idle level,
\* RX an input, then listen()
SoftBegin(id) ==
    /\ id < soft.INSTANCE_COUNT
    /\ LET st == soft.INSTANCES[id]
           d1 == WithBit(Ddrs, PortOf(st.tx_pin), BitOf(st.tx_pin), TRUE)
           d  == WithBit(d1, PortOf(st.rx_pin), BitOf(st.rx_pin), FALSE)
           p  == WithBit(Ports, PortOf(st.tx_pin), BitOf(st.tx_pin), ~st.inverse_logic)
       IN  /\ DDRB' = d.B /\ DDRD' = d.D
           /\ PORTB' = p.B /\ PORTD' = p.D
    /\ ListenBody(id)
    /\ UNCHANGED iflag
    /\ UNCHANGED <<trip, sweep, handed, halted, readBack, wait, pwm, uart, twi, rxq>>
    /\ UNCHANGED <<servoVars, servoObs, toneVars, clockVars, clockObs, csStack, irqVars>>

\* SoftwareSerial::end() of instance id
SoftEnd(id) ==
    /\ id < soft.INSTANCE_COUNT
    /\ soft' = [soft EXCEPT !.INSTANCES[id].is_listening = FALSE]
    /\ LET pin == soft.INSTANCES[id].rx_pin
       IN  PCMSK' = [PCMSK EXCEPT ![SoftBank(pin)] = @ \ {BitOf(pin)}]
    /\ UNCHANGED <<PCINT_HANDLERS, PCICR, PCIFR>>
    /\ UNCHANGED <<trip, sweep, handed, halted, readBack, wait, pwm, uart, twi, rxq>>
    /\ UNCHANGED <<cpuVars, servoVars, servoObs, toneVars, clockVars, clockObs, csStack,
                   irqVars>>

\* SoftwareSerial::is_listening() of instance id
IsListening(id) == soft.INSTANCES[id].some /\ soft.INSTANCES[id].is_listening

SoftNext ==
    \/ \E pins \in SoftPins, inv \in SoftInverse : SoftNew(pins[1], pins[2], inv)
    \/ \E id \in 0 .. (MaxInstances - 1) : SoftBegin(id)
    \/ \E id \in 0 .. (MaxInstances - 1) : SoftListen(id)
    \/ \E id \in 0 .. (MaxInstances - 1) : SoftEnd(id)

SpecSoft == IrqInit /\ [][SoftNext]_vars

(***************************************************************************)
(* servo.rs: read() and write() on one slot, with the arithmetic as the     *)
(* build compiles it: `checks` is whether u16 overflow checks are compiled  *)
(* in (then an overflowing + or - panics, else it wraps); a division by     *)
(* zero panics in every build.                                              *)
(***************************************************************************)
ReadLimits == {<<544, 2400>>, <<1000, 1000>>, <<1600, 2000>>, <<2000, 1000>>}
ReadAngles == {0, 90, 180}
ReadMicros == {1000, 3000}

\* Servo::read panics: max_pulse - min_pulse or pulse_width - min_pulse
\* underflows, or the range divided by is 0
ReadTraps(servo, checks) ==
    \/ checks /\ servo.max_pulse < servo.min_pulse
    \/ checks /\ servo.pulse_width < servo.min_pulse
    \/ servo.max_pulse = servo.min_pulse

\* Servo::write panics: max_pulse - min_pulse underflows or min_pulse + ...
\* overflows
WriteTraps(servo, angle, checks) ==
    \/ checks /\ servo.max_pulse < servo.min_pulse
    \/ checks /\ servo.min_pulse
                    + (((Min2(angle, 180) * ((servo.max_pulse - servo.min_pulse) % U16))
                        \div 180) % U16) >= U16

\* the slot as Servo::new leaves it
NewSlot ==
    [some |-> TRUE, pin |-> 0, pulse_width |-> DEFAULT_PULSE_WIDTH,
     min_pulse |-> MIN_PULSE_WIDTH, max_pulse |-> MAX_PULSE_WIDTH, is_attached |-> FALSE]

\* attach_with_limits(9, min, max) on the slot
SlotAttach(min, max) ==
    /\ ~trip.trapped
    /\ trip' = [trip EXCEPT !.stage = "attached",
                            !.servo = AttachedSlot(trip.servo, 9, min, max)]
    /\ UNCHANGED <<sweep, handed, halted, readBack, wait, pwm, uart, soft, twi, rxq>>
    /\ UNCHANGED <<cpuVars, servoVars, servoObs, toneVars, clockVars, clockObs, csStack,
                   irqVars, pcintVars>>

\* write(angle) on the slot
SlotWrite(angle) ==
    /\ ~trip.trapped
    /\ trip' = IF WriteTraps(trip.servo, angle, trip.checks)
               THEN [trip EXCEPT !.stage = "write", !.trapped = TRUE]
               ELSE [trip EXCEPT !.stage = "write",
                                 !.servo.pulse_width =
                                     ClampPulse(trip.servo, AngleToPulse(trip.servo, angle))]
    /\ UNCHANGED <<sweep, handed, halted, readBack, wait, pwm, uart, soft, twi, rxq>>
    /\ UNCHANGED <<cpuVars, servoVars, servoObs, toneVars, clockVars, clockObs, csStack,
                   irqVars, pcintVars>>

\* write_microseconds(us) on the slot
SlotWriteMicroseconds(us) ==
    /\ ~trip.trapped
    /\ trip' = [trip EXCEPT !.stage = "write_microseconds",
                            !.servo.pulse_width = ClampPulse(trip.servo, us)]
    /\ UNCHANGED <<sweep, handed, halted, readBack, wait, pwm, uart, soft, twi, rxq>>
    /\ UNCHANGED <<cpuVars, servoVars, servoObs, toneVars, clockVars, clockObs, csStack,
                   irqVars, pcintVars>>

\* read() on the slot
SlotRead ==
    /\ ~trip.trapped
    /\ trip' = IF ReadTraps(trip.servo, trip.checks)
               THEN [trip EXCEPT !.stage = "read", !.trapped = TRUE]
               ELSE [trip EXCEPT !.stage = "read", !.back = PulseToAngle(trip.servo)]
    /\ UNCHANGED <<sweep, handed, halted, readBack, wait, pwm, uart, soft, twi, rxq>>
    /\ UNCHANGED <<cpuVars, servoVars, servoObs, toneVars, clockVars, clockObs, csStack,
                   irqVars, pcintVars>>

SlotInit ==
    /\ iflag = TRUE
    /\ PORTB = {} /\ PORTD = {} /\ DDRB = {} /\ DDRD = {}
    /\ ServoReset /\ ToneReset /\ ClockStarted /\ IrqReset /\ PcintReset
    /\ sweep = NoSweep /\ handed = <<>> /\ halted = FALSE
    /\ readBack = NoRead /\ wait = NoWait /\ PeriphReset
    /\ \E checks \in BOOLEAN :
          trip = [stage |-> "new", servo |-> NewSlot, angle |-> 0, back |-> 0,
                  checks |-> checks, trapped |-> FALSE]

SlotNext ==
    \/ \E lim \in ReadLimits : SlotAttach(lim[1], lim[2])
    \/ \E angle \in ReadAngles : SlotWrite(angle)
    \/ \E us \in ReadMicros : SlotWriteMicroseconds(us)
    \/ SlotRead

SpecServoRead == SlotInit /\ [][SlotNext]_vars

(***************************************************************************)
(* timer.rs: timer_set_prescaler                                            *)
(***************************************************************************)
Timers     == {"Timer0", "Timer1", "Timer2"}
Prescalers == {1, 8, 64, 256, 1024}     \* enum Prescaler, by its discriminant

\* the match of timer_set_prescaler
CsBits(prescaler) ==
    IF prescaler = 1 THEN 1
    ELSE IF prescaler = 8 THEN 2
    ELSE IF prescaler = 64 THEN 3
    ELSE IF prescaler = 256 THEN 4
    ELSE 5

\* the 1 bits of a clock-select value
BitsOfCs(cs) == {b \in 0 .. 2 : (cs \div (2 ^ b)) % 2 = 1}

\* The divisor a timer counts at for a clock-select value, 0 for none. Timer2 has
\* its own table, the one tone.rs lists in PRESCALERS; Timer0 and Timer1 count
\* at 1, 8, 64, 256, 1024 for 1..5.
ClockDivisor(timer, cs) ==
    IF timer = "Timer2"
    THEN IF \E k \in 1 .. Len(PRESCALERS) : PRESCALERS[k][1] = cs
         THEN PRESCALERS[CHOOSE k \in 1 .. Len(PRESCALERS) : PRESCALERS[k][1] = cs][2]
         ELSE 0
    ELSE IF cs = 1 THEN 1
    ELSE IF cs = 2 THEN 8
    ELSE IF cs = 3 THEN 64
    ELSE IF cs = 4 THEN 256
    ELSE IF cs = 5 THEN 1024
    ELSE 0

\* the clock-select value held in a register given as a set of bits
CsOf(reg) == (IF 0 \in reg THEN 1 ELSE 0) + (IF 1 \in reg THEN 2 ELSE 0)
             + (IF 2 \in reg THEN 4 ELSE 0)

\* timer_set_prescaler(timer, prescaler): (reg & 0xF8) | cs_bits
TimerSetPrescaler(timer, prescaler) ==
    /\ UNCHANGED pureVars
    /\ IF timer = "Timer0"
       THEN /\ TCCR0B' = (TCCR0B \ {0, 1, 2}) \cup BitsOfCs(CsBits(prescaler))
            /\ UNCHANGED <<TCCR1B, TCCR2B>>
       ELSE IF timer = "Timer1"
       THEN /\ TCCR1B' = (TCCR1B \ {0, 1, 2}) \cup BitsOfCs(CsBits(prescaler))
            /\ UNCHANGED <<TCCR0B, TCCR2B>>
       ELSE /\ TCCR2B' = (TCCR2B - (TCCR2B % 8)) + CsBits(prescaler)
            /\ UNCHANGED <<TCCR0B, TCCR1B>>
    /\ UNCHANGED <<TIMSK0, TIFR0, TCNT0, TIMER0_OVERFLOW_COUNT, TIMER0_MILLIS,
                   TIMER0_FRACT, mic>>
    /\ UNCHANGED <<SERVOS, SERVO_COUNT, TIMER_INITIALIZED, CURRENT_SERVO_INDEX,
                   SERVO_FRAME_CYCLE_ACTIVE, TIMSK1, OCR1A>>
    /\ UNCHANGED <<TONE_PIN, TONE_TOGGLE_COUNT, TONE_PORT, TONE_MASK,
                   TCCR2A, OCR2A, TIMSK2, tonePending, started>>
    /\ UNCHANGED <<cpuVars, servoObs, clockObs, csStack, irqVars, pcintVars>>

\* timer_set_prescaler next to the servo calls that set up Timer1
TimerNext ==
    \/ \E timer \in Timers, p \in Prescalers : TimerSetPrescaler(timer, p)
    \/ ServoNew
    \/ \E i \in 0 .. (MaxServos - 1) : Attach(i, 9 + i)

SpecTimer == ServoInit /\ [][TimerNext]_vars

(***************************************************************************)
(* i2c.rs: write, read, write_register, read_register as the sequence of    *)
(* bus operations each performs; an operation that fails ends the call      *)
(* through the `?` operator.                                                *)
(***************************************************************************)
\* Bound: number of data bytes of a transfer
MaxData == 6
I2cOps  == {"write", "read", "write_register", "read_register"}

\* n times the operation kind
Repeat(kind, n) == [k \in 1 .. n |-> kind]

\* the bus operations of read(address, buffer) with buffer.len() = n
ReadPlan(n) ==
    IF n = 0 THEN <<>>
    ELSE <<"start", "write_byte">> \o Repeat("read_byte", n) \o <<"stop">>

\* the bus operations of a call with n data bytes, in program order
Plan(op, n) ==
    IF op = "write" THEN <<"start", "write_byte">> \o Repeat("write_byte", n) \o <<"stop">>
    ELSE IF op = "read" THEN ReadPlan(n)
    ELSE IF op = "write_register"
         THEN <<"start", "write_byte", "write_byte">> \o Repeat("write_byte", n) \o <<"stop">>
    ELSE <<"start", "write_byte", "write_byte">> \o ReadPlan(n)

\* the errors an operation can end with: wait_for_twint times out, or the
\* status read back is not the expected one
Failures(kind) ==
    IF kind = "write_byte" THEN {"Nack", "BusError", "Timeout"}
    ELSE {"BusError", "Timeout"}

\* a call is made
I2cCall(op, n) ==
    /\ twi.result # "running"
    /\ twi' = [op |-> op, plan |-> Plan(op, n), sentStart |-> FALSE, sentStop |-> FALSE,
               result |-> "running"]
    /\ UNCHANGED <<trip, sweep, handed, halted, readBack, wait, pwm, uart, soft, rxq>>
    /\ UNCHANGED <<cpuVars, servoVars, servoObs, toneVars, clockVars, clockObs, csStack,
                   irqVars, pcintVars>>

\* start(), write_byte() or read_byte() returns Ok
I2cOk ==
    /\ twi.result = "running" /\ twi.plan # <<>> /\ Head(twi.plan) # "stop"
    /\ twi' = [twi EXCEPT !.plan = Tail(@),
                          !.sentStart = @ \/ Head(twi.plan) = "start",
                          !.sentStop = @ /\ Head(twi.plan) # "start"]
    /\ UNCHANGED <<trip, sweep, handed, halted, readBack, wait, pwm, uart, soft, rxq>>
    /\ UNCHANGED <<cpuVars, servoVars, servoObs, toneVars, clockVars, clockObs, csStack,
                   irqVars, pcintVars>>

\* start(), write_byte() or read_byte() returns Err(e): `?` returns it at once
I2cErr(e) ==
    /\ twi.result = "running" /\ twi.plan # <<>> /\ Head(twi.plan) # "stop"
    /\ e \in Failures(Head(twi.plan))
    /\ twi' = [twi EXCEPT !.plan = <<>>, !.result = e]
    /\ UNCHANGED <<trip, sweep, handed, halted, readBack, wait, pwm, uart, soft, rxq>>
    /\ UNCHANGED <<cpuVars, servoVars, servoObs, toneVars, clockVars, clockObs, csStack,
                   irqVars, pcintVars>>

\* stop(): TWSTO is written
I2cStop ==
    /\ twi.result = "running" /\ twi.plan # <<>> /\ Head(twi.plan) = "stop"
    /\ twi' = [twi EXCEPT !.plan = Tail(@), !.sentStop = TRUE]
    /\ UNCHANGED <<trip, sweep, handed, halted, readBack, wait, pwm, uart, soft, rxq>>
    /\ UNCHANGED <<cpuVars, servoVars, servoObs, toneVars, clockVars, clockObs, csStack,
                   irqVars, pcintVars>>

\* the call returns Ok(())
I2cReturn ==
    /\ twi.result = "running" /\ twi.plan = <<>>
    /\ twi' = [twi EXCEPT !.result = "Ok"]
    /\ UNCHANGED <<trip, sweep, handed, halted, readBack, wait, pwm, uart, soft, rxq>>
    /\ UNCHANGED <<cpuVars, servoVars, servoObs, toneVars, clockVars, clockObs, csStack,
                   irqVars, pcintVars>>

I2cNext ==
    \/ \E op \in I2cOps, n \in 0 .. MaxData : I2cCall(op, n)
    \/ I2cOk
    \/ \E e \in {"Nack", "BusError", "Timeout"} : I2cErr(e)
    \/ I2cStop
    \/ I2cReturn

SpecI2c == ServoInit /\ [][I2cNext]_vars

(***************************************************************************)
(* software_serial.rs: the receive ring of the listening instance. The      *)
(* handler runs with interrupts disabled; read, peek, available and         *)
(* overflow run with interrupts enabled, so the handler can run between two *)
(* of their memory accesses. rxq.fifo lists the bytes accepted and not yet  *)
(* read; the k-th byte to arrive has the value k.                           *)
(***************************************************************************)
\* Bound: number of bytes that arrive
MaxArrivals == 66

\* index arithmetic of the ring
NextIndex(i) == (i + 1) % RX_BUFFER_SIZE

\* the store without the test for a full ring
RecvStoreAlways(q, data) ==
    [q EXCEPT !.rx_buffer[q.rx_buffer_head] = data,
              !.rx_buffer_head = NextIndex(q.rx_buffer_head)]

\* recv_data, "Store in buffer"
RecvStore(q, data) ==
    IF NextIndex(q.rx_buffer_head) # q.rx_buffer_tail
    THEN [q EXCEPT !.rx_buffer[q.rx_buffer_head] = data,
                   !.rx_buffer_head = NextIndex(q.rx_buffer_head)]
    ELSE [q EXCEPT !.buffer_overflow = TRUE]

\* available() computed from head and tail
AvailableValue(q) ==
    (RX_BUFFER_SIZE + q.rx_buffer_head - q.rx_buffer_tail) % RX_BUFFER_SIZE

\* every step changes rxq alone
RxFrame ==
    /\ UNCHANGED <<trip, sweep, handed, halted, readBack, wait, pwm, uart, soft, twi>>
    /\ UNCHANGED <<cpuVars, servoVars, servoObs, toneVars, clockVars, clockObs, csStack,
                   irqVars, pcintVars>>

\* handle_interrupt -> recv_data with a start bit on the line: one byte is
\* received and stored or dropped
SoftRecv ==
    /\ iflag
    /\ rxq.arrivals < MaxArrivals
    /\ LET data == rxq.arrivals + 1
           room == Len(rxq.fifo) < RX_BUFFER_SIZE - 1
       IN  rxq' = [RecvStore(rxq, data) EXCEPT
                      !.arrivals = data,
                      !.fifo = IF room THEN Append(@, data) ELSE @,
                      !.unreported = @ \/ ~room,
                      !.ret = NoReturn]
    /\ RxFrame

\* read(): the comparison of head and tail; -1 when they are equal
SoftReadCheck ==
    /\ rxq.pc = "idle"
    /\ rxq' = IF rxq.rx_buffer_head = rxq.rx_buffer_tail
              THEN [rxq EXCEPT !.ret = [op |-> "read", value |-> -1, flag |-> FALSE]]
              ELSE [rxq EXCEPT !.pc = "read_take", !.ret = NoReturn]
    /\ RxFrame

\* read(): the byte at tail is taken and tail is advanced
SoftReadTake ==
    /\ rxq.pc = "read_take"
    /\ rxq' = [rxq EXCEPT
                  !.rx_buffer_tail = NextIndex(@),
                  !.pc = "idle",
                  !.ret = [op |-> "read", value |-> rxq.rx_buffer[rxq.rx_buffer_tail],
                           flag |-> FALSE],
                  !.fifo = Tail(@)]
    /\ RxFrame

\* peek(): the comparison of head and tail
SoftPeekCheck ==
    /\ rxq.pc = "idle"
    /\ rxq' = IF rxq.rx_buffer_head = rxq.rx_buffer_tail
              THEN [rxq EXCEPT !.ret = [op |-> "peek", value |-> -1, flag |-> FALSE]]
              ELSE [rxq EXCEPT !.pc = "peek_take", !.ret = NoReturn]
    /\ RxFrame

\* peek(): the byte at tail is returned
SoftPeekTake ==
    /\ rxq.pc = "peek_take"
    /\ rxq' = [rxq EXCEPT
                  !.pc = "idle",
                  !.ret = [op |-> "peek", value |-> rxq.rx_buffer[rxq.rx_buffer_tail],
                           flag |-> FALSE]]
    /\ RxFrame

\* available()
SoftAvailable ==
    /\ rxq.pc = "idle"
    /\ rxq' = [rxq EXCEPT !.ret = [op |-> "available", value |-> AvailableValue(rxq),
                                   flag |-> FALSE]]
    /\ RxFrame

\* overflow(): let overflow = state.buffer_overflow
SoftOverflowLoad ==
    /\ rxq.pc = "idle"
    /\ rxq' = [rxq EXCEPT !.pc = "overflow_store", !.loaded = rxq.buffer_overflow,
                          !.ret = NoReturn]
    /\ RxFrame

\* overflow(): state.buffer_overflow = false; the value loaded is returned
SoftOverflowStore ==
    /\ rxq.pc = "overflow_store"
    /\ rxq' = [rxq EXCEPT !.pc = "idle", !.buffer_overflow = FALSE, !.loaded = FALSE,
                          !.ret = [op |-> "overflow", value |-> 0, flag |-> rxq.loaded],
                          !.unreported = @ /\ ~rxq.loaded]
    /\ RxFrame

SoftRxNext ==
    \/ SoftRecv
    \/ SoftReadCheck
    \/ SoftReadTake
    \/ SoftPeekCheck
    \/ SoftPeekTake
    \/ SoftAvailable
    \/ SoftOverflowLoad
    \/ SoftOverflowStore

SpecSoftRx == ServoInit /\ [][SoftRxNext]_vars

\* The pin-level calls
GpioNext ==
    \/ \E pin \in GpioPins, high \in BOOLEAN : DigitalWriteCall(pin, high)
    \/ \E pin \in GpioPins : DigitalReadCall(pin)
    \/ \E pin \in GpioPins, mode \in GpioModes : PinModeCall(pin, mode)
    \/ \E pin \in GpioPins, value \in GpioValues : AnalogWriteCall(pin, value)

SpecGpio == IrqInit /\ [][GpioNext]_vars

\* Slot allocation up to the panic; attach and detach are called on the first and
\* the last slot
SlotsCalled == {0, SERVOS_PER_TIMER - 1}

ServoSlotsNext ==
    \/ ServoNewOrPanic
    \/ \E i \in SlotsCalled, pin \in AttachPins : ~halted /\ Attach(i, pin)
    \/ \E i \in SlotsCalled : ~halted /\ Detach(i)

SpecServoSlots == ServoInit /\ [][ServoSlotsNext]_vars

(***************************************************************************)
(* Servo scheduler: frame properties                                       *)
(***************************************************************************)
\* number of times slot j occurs in the frame log
Pulses(log, j) == Cardinality({k \in 1 .. Len(log) : log[k] = j})

FrameComplete == phase = "gap" /\ stable

\* C1: in a frame with a fixed slot table, when the scheduler has programmed
\* the frame gap every attached slot (slot 0 included) has had its pulse
\* started exactly once in that frame.
C1_OnePulsePerAttachedSlot ==
    FrameComplete => \A j \in Attached(SERVOS) : Pulses(frameLog, j) = 1

\* C2: in a frame with a fixed slot table whose attached widths sum to at most
\* 20000 us, the compare intervals programmed in the frame (the pulses driven
\* high plus the frame gap) add up to 40000 ticks.
C2_FrameAddsUp ==
    (FrameComplete /\ SetSum(PulseWidths(SERVOS), Attached(SERVOS)) <= REFRESH_INTERVAL)
        => frameTicks = REFRESH_INTERVAL * TICKS_PER_US

\* C4: every allocated slot's pulse width lies within the slot's limits.
C4_PulseWithinLimits ==
    \A j \in Slots : SERVOS[j].some =>
        /\ SERVOS[j].min_pulse <= SERVOS[j].pulse_width
        /\ SERVOS[j].pulse_width <= SERVOS[j].max_pulse

ServoWrite(i) ==
    \/ \E us \in WriteMicros : WriteMicroseconds(i, us)
    \/ \E angle \in WriteAngles : WriteAngle(i, angle)

\* C13: a write or write_microseconds call leaves the compare interval
\* programmed for the pulse in flight (and the pins) as they are, and the ISR
\* programs each pulse it starts with the width stored at that firing.
C13_WriteTakesEffectNextPulse ==
    [][/\ \A i \in 0 .. (MaxServos - 1) :
            ServoWrite(i) => (OCR1A' = OCR1A /\ PORTB' = PORTB /\ PORTD' = PORTD
                                /\ CURRENT_SERVO_INDEX' = CURRENT_SERVO_INDEX)
       /\ (Vector11 /\ phase' = "pulse") =>
            OCR1A' = SERVOS[CURRENT_SERVO_INDEX'].pulse_width * TICKS_PER_US]_vars

\* the pulse of slot 1 is in flight with the interval programmed for 1500 us
\* while a write has already stored 1000 us
C13_WrittenDuringPulse ==
    /\ InFlight(1)
    /\ SERVOS[1].pulse_width = 1000
    /\ OCR1A = DEFAULT_PULSE_WIDTH * TICKS_PER_US

Dist(a, b) == IF a >= b THEN a - b ELSE b - a

\* C14: for every angle 0..180 and every limit pair min < max, write(angle)
\* followed by read() returns a value within 1 degree of the angle.
C14_RoundTripWithinOneDegree ==
    trip.stage = "read" => Dist(trip.back, trip.angle) <= 1

\* C14 (amended): for every angle 0..180 and every limit pair with
\* max - min >= 180, write(angle) followed by read() returns a value within
\* 1 degree of the angle.
C14_RoundTripWithinOneDegreeWideLimits ==
    (trip.stage = "read" /\ trip.servo.max_pulse - trip.servo.min_pulse >= 180)
        => Dist(trip.back, trip.angle) <= 1

\* 91 degrees written and read back as 90 with limits 181 us apart
C14_ReadBackOneLess ==
    /\ trip.stage = "read"
    /\ trip.servo.min_pulse = 1000 /\ trip.servo.max_pulse = 1181
    /\ trip.angle = 91 /\ trip.back = 90

\* C15: for every pin up to 13 and every frequency from 31 to 65535, tone() leaves
\* in TCCR2B the clock-select bits of the first divisor d of PRESCALERS whose
\* count c = floor(16000000 / (2 * f * d)) lies in 1..256, leaves c - 1 in OCR2A
\* and has the compare-match interrupt enabled; such a divisor exists.
HalfPeriod(f, d) == F_CPU \div (2 * f * d)

C15_FirstFittingDivisor ==
    (sweep.called /\ sweep.pin <= 13 /\ sweep.frequency >= 31) =>
        \E k \in 1 .. Len(PRESCALERS) :
            /\ HalfPeriod(sweep.frequency, PRESCALERS[k][2]) \in 1 .. 256
            /\ \A j \in 1 .. (k - 1) :
                  HalfPeriod(sweep.frequency, PRESCALERS[j][2]) \notin 1 .. 256
            /\ TCCR2B = PRESCALERS[k][1]
            /\ OCR2A = HalfPeriod(sweep.frequency, PRESCALERS[k][2]) - 1
            /\ OCIE2A \in TIMSK2

C15_Tone440Selects128 ==
    /\ sweep.called /\ sweep.frequency = 440 /\ sweep.pin = 13
    /\ TCCR2B = 5 /\ OCR2A = 141 /\ OCIE2A \in TIMSK2

\* C16: a tone request that cannot be represented (frequency 0 or below 31 Hz, or
\* a pin above 13) is a no-op for tone() and for tone_duration(): no step of such
\* a call writes a Timer2 register or changes the active pin, the port, the mask
\* or the toggle countdown.
Unrepresentable(pin, frequency) == frequency < 31 \/ pin > 13

ToneState == <<TCCR2A, TCCR2B, OCR2A, TIMSK2, TONE_PIN, TONE_PORT, TONE_MASK,
               TONE_TOGGLE_COUNT>>

C16_UnrepresentableIsNoOp ==
    [][/\ (\E pin \in TonePins, f \in ToneFreqs :
              Unrepresentable(pin, f) /\ Tone(pin, f))
          => UNCHANGED ToneState
       /\ (\E pin \in TonePins, f \in ToneFreqs, d \in ToneDurations :
              Unrepresentable(pin, f) /\ ToneDuration(pin, f, d))
          => UNCHANGED ToneState
       /\ (/\ tonePending.some
           /\ Unrepresentable(tonePending.pin, tonePending.frequency)
           /\ ToneDurationStart)
          => UNCHANGED ToneState]_vars

\* C17: whatever tone, tone_duration and no_tone calls and compare-match interrupts
\* came before, the active tone pin is the pin of the most recent tone start that
\* got through, or none, and a compare-match interrupt changes the level of no
\* other pin than that one: a pin of an earlier start is never toggled again.
C17_OnlyLatestStartToggles ==
    [][/\ TONE_PIN' \in {NoPin, started'.pin}
       /\ Vector7 => /\ \A pin \in 0 .. 13 :
                          pin # started.pin => (PinHigh(pin)' <=> PinHigh(pin))
                     /\ TONE_TOGGLE_COUNT # 1 =>
                          (PinHigh(started.pin)' <=> ~PinHigh(started.pin))]_vars

C17_EarlierPinLeftAlone ==
    /\ started.pin = 9 /\ started.earlier = {8} /\ started.fired
    /\ TONE_PIN = 9 /\ PinHigh(9) /\ PinHigh(8)

\* C18: no_tone(pin) changes nothing when pin is not the active tone pin; when it
\* is, the call leaves the Timer2 compare-match interrupt disabled, the pin low
\* and no pin recorded as active.
C18_NoToneOnlyStopsActivePin ==
    [][\A pin \in TonePins :
          NoTone(pin) =>
             IF TONE_PIN = pin
             THEN /\ OCIE2A \notin TIMSK2'
                  /\ ~PinHigh(pin)'
                  /\ TONE_PIN' = NoPin
             ELSE UNCHANGED <<cpuVars, TONE_PIN, TONE_TOGGLE_COUNT, TONE_PORT, TONE_MASK,
                              TCCR2A, TCCR2B, OCR2A, TIMSK2>>]_vars

C18_StoppedWhileHigh ==
    /\ started.stopped /\ started.fired /\ started.pin = 8
    /\ TONE_PIN = NoPin /\ ~PinHigh(8) /\ OCIE2A \notin TIMSK2

\* C19: under every interleaving of foreground calls and calls made by interrupt
\* handlers, the first call of Peripherals::take() returns Some and runs
\* init_timer, and every later call returns None and does not run it.
C19_OnlyFirstTakeSucceeds ==
    \A k \in 1 .. Len(takeLog) :
        /\ takeLog[k].result = IF k = 1 THEN "some" ELSE "none"
        /\ takeLog[k].init <=> k = 1

C19_HandlerTookFirst ==
    /\ Len(takeLog) >= 3
    /\ takeLog[1].by = "handler" /\ takeLog[2].by = "main" /\ takeLog[3].by = "handler"
    /\ TAKEN /\ TIMSK0 = {TOIE0}

\* C20: the k-th Servo::new (k <= 12) returns slot k - 1 whatever detach calls were
\* made, every slot handed out stays occupied, and the 13th call panics and
\* leaves the slot table and the counter as they were.
C20_SlotsHandedOutInOrder ==
    [][/\ \A k \in 1 .. Len(handed') : handed'[k] = k - 1
       /\ SERVO_COUNT' = Len(handed')
       /\ \A j \in Slots : SERVOS'[j].some <=> j < Len(handed')
       /\ (halted' /\ ~halted) =>
             /\ Len(handed) = SERVOS_PER_TIMER
             /\ UNCHANGED <<SERVOS, SERVO_COUNT>>]_vars

C20_PanickedAfterDetach ==
    /\ halted /\ Len(handed) = SERVOS_PER_TIMER
    /\ SERVOS[0].pin = 9 /\ ~SERVOS[0].is_attached
    /\ SERVOS[SERVOS_PER_TIMER - 1].is_attached

\* C21: whenever the ISR programs the frame gap, the compare value is
\* 2 * max(0, 20000 - sum) ticks, where sum is the total of the pulse widths of
\* the attached slots; that value is below 2^16, and it is 0 when sum > 20000.
RECURSIVE AttachedWidthBelow(_)
AttachedWidthBelow(n) ==
    IF n = 0 THEN 0
    ELSE AttachedWidthBelow(n - 1)
         + (IF SERVOS[n - 1].some /\ SERVOS[n - 1].is_attached
            THEN SERVOS[n - 1].pulse_width ELSE 0)

GapStep == Vector11 /\ phase' = "gap"

C21_GapFloorsAtZero ==
    [][GapStep =>
         LET sum == AttachedWidthBelow(SERVOS_PER_TIMER)
             gap == IF sum > 20000 THEN 0 ELSE 2 * (20000 - sum)
         IN  OCR1A' = gap /\ gap < 65536]_vars

C21_OverfullFrameGapZero ==
    /\ phase = "gap" /\ OCR1A = 0
    /\ Attached(SERVOS) = {0, 1}
    /\ SERVOS[0].pulse_width = 12000 /\ SERVOS[1].pulse_width = 12000

\* C22: with slot 0 attached with the default limits and slot 1 attached with the
\* limits 1000..2000, write(90) on slot 0 stores 1472 us, write(0) on slot 1
\* stores 1000 us, and the gap the ISR then programs is 17528 us.
DemoWritten ==
    /\ Attached(SERVOS) = {0, 1}
    /\ SERVOS[0].min_pulse = 544 /\ SERVOS[0].max_pulse = 2400
    /\ SERVOS[1].min_pulse = 1000 /\ SERVOS[1].max_pulse = 2000
    /\ wrote[0] = 90 /\ wrote[1] = 0

C22_DemoWidthsAndGap ==
    [][/\ DemoWritten' => /\ SERVOS'[0].pulse_width = 1472
                          /\ SERVOS'[1].pulse_width = 1000
       /\ (DemoWritten /\ GapStep) => OCR1A' = 17528 * 2]_vars

C22_DemoGapProgrammed ==
    /\ DemoWritten /\ phase = "gap" /\ OCR1A = 35056 /\ stable

\* C23: every execution of the Timer0 overflow handler leaves the fractional
\* accumulator below 125, the addition of the increment to the 8-bit accumulator
\* does not wrap, and a step that changes the millisecond counter is an
\* execution of the handler.
C23_FractBelowMaxMillisOnlyByHandler ==
    [][/\ Vector16 => (TIMER0_FRACT' < 125 /\ TIMER0_FRACT + 3 <= 255)
       /\ TIMER0_MILLIS' # TIMER0_MILLIS => Vector16]_vars

C23_FractCarried ==
    TIMER0_OVERFLOW_COUNT = 42 /\ TIMER0_FRACT = 1 /\ TIMER0_MILLIS = 43

\* C24: a foreground operation accesses the state it shares with an interrupt
\* handler with interrupts disabled from its first access to its last: while
\* tone_duration is between storing the countdown and the end of its tone() call,
\* the I bit is clear and the compare-match handler does not run.
C24_NoHandlerInsideForegroundOperation ==
    [][/\ tonePending'.some => ~iflag'
       /\ Vector7 => ~tonePending.some]_vars

\* C25: attaching a handler to a source (attach_interrupt, pcint_attach,
\* pcint_enable_bank) leaves the pending flag of that source clear, so that a
\* trigger from before the attach does not invoke the new handler.
C25_AttachClearsPendingFlag ==
    [][/\ \A i \in ExtSources :
            (\E m \in Modes, h \in Handlers : AttachInterruptEnter(i, m, h))
               => i \notin EIFR'
       /\ \A pin \in PcintPins :
            (PinToPcint(pin).some /\ \E h \in PcintHandlers : PcintAttach(pin, h))
               => PinToPcint(pin).bank \notin PCIFR'
       /\ \A b \in Banks :
            (\E m \in BankMasks, h \in PcintHandlers : PcintEnableBank(b, m, h))
               => b \notin PCIFR']_vars

\* C26: for a pin number above 19, digital_write, pin_mode and analog_write change
\* no bit of a port or direction register, and digital_read returns Low.
C26_OutOfRangePinIsNoOp ==
    [][\A pin \in {q \in GpioPins : q > 19} :
          /\ (\E high \in BOOLEAN : DigitalWriteCall(pin, high))
                => UNCHANGED <<PORTB, PORTD, DDRB, DDRD>>
          /\ (\E mode \in GpioModes : PinModeCall(pin, mode))
                => UNCHANGED <<PORTB, PORTD, DDRB, DDRD>>
          /\ (\E value \in GpioValues : AnalogWriteCall(pin, value))
                => UNCHANGED <<PORTB, PORTD, DDRB, DDRD>>
          /\ DigitalReadCall(pin) => readBack'.state = "Low"]_vars

\* C27: a bounded wait never traps, and it does not go on polling once the
\* elapsed time, taken modulo 2^32, exceeds the caller's bound: it has ended with
\* its timeout sentinel by then, also when the clock wrapped during the wait.
C27_WaitExpiresAcrossWraparound ==
    /\ wait.state # "panic"
    /\ wait.state = "polling" => ~Greater(WrappingSub(wait.now, wait.start), wait.bound)

\* the duty register of a pin's channel
DutyOf(p, pin) == IF pin = 6 THEN p.OCR0A ELSE p.OCR0B

\* C28: of the two channels of Timer0, into_pwm on one pin leaves the other
\* channel's COM bits in TCCR0A and its duty register as they were, and
\* into_output removes exactly the pin's own two COM bits from TCCR0A and
\* changes no other bit of it, nor TCCR0B or a duty register.
C28_PwmChannelsIndependent ==
    [][\A pin \in PwmPins :
          LET other == 11 - pin
          IN  /\ (\E freq \in PwmFreqs : IntoPwm(pin, freq)) =>
                    /\ pwm'.TCCR0A \cap ComBits(other) = pwm.TCCR0A \cap ComBits(other)
                    /\ DutyOf(pwm', other) = DutyOf(pwm, other)
              /\ IntoOutput(pin) =>
                    /\ pwm'.TCCR0A = pwm.TCCR0A \ ComBits(pin)
                    /\ TCCR0B' = TCCR0B
                    /\ pwm'.OCR0A = pwm.OCR0A /\ pwm'.OCR0B = pwm.OCR0B]_vars

\* D6 runs at duty 200 while D5 was switched to PWM, given duty 64 and switched
\* back to a plain output
C28_BothChannelsThenOneReverted ==
    /\ pwm.last = <<"into_output", 5>>
    /\ pwm.mode[6] = "Pwm" /\ pwm.OCR0A = 200 /\ pwm.OCR0B = 64
    /\ pwm.TCCR0A = {0, 1, 7}

\* C29: peek() does not consume. The bytes the reads have returned are the
\* first bytes that arrived, in arrival order, none skipped or repeated; and a
\* byte that peek() reports is the one the next read is due to return.
C29_PeekDoesNotConsume ==
    /\ Len(uart.delivered) <= Len(uart.arrived)
    /\ \A i \in 1 .. Len(uart.delivered) : uart.delivered[i] = uart.arrived[i]
    /\ uart.last[1] = "peek" /\ uart.last[2] # NoByte =>
           uart.last[2] = uart.arrived[Len(uart.delivered) + 1]

\* C30: of the SoftwareSerial instances created, at most one reports
\* is_listening(), and an instance that does is the one ACTIVE_INSTANCE records.
C30_AtMostOneListener ==
    /\ Cardinality({id \in 0 .. (MaxInstances - 1) : IsListening(id)}) <= 1
    /\ \A id \in 0 .. (MaxInstances - 1) :
          IsListening(id) => soft.ACTIVE_INSTANCE = id

\* C31: when the first attach ever made is on slot 0, the cycle start inside
\* attach_with_limits starts the slot's pulse: on return the slot's pin is high,
\* OCR1A holds pulse_width * 2 ticks and the pulse is running.
C31_FirstAttachStartsSlot0 ==
    [][\A lim \in DemoLimits \cup {<<MIN_PULSE_WIDTH, MAX_PULSE_WIDTH>>} :
          ~TIMER_INITIALIZED /\ AttachWithLimits(0, 9, lim[1], lim[2]) =>
              /\ BitOf(9) \in PORTB'
              /\ OCR1A' = PulseTicks(SERVOS'[0])
              /\ phase' = "pulse"]_vars

\* the pins handed to attach that are driven high
ServoPinsHigh == {pin \in AttachPins : PinHigh(pin)}

\* C32: after every ISR firing and every servo call at most one servo pin is
\* high, and it is the pin of the slot whose pulse is in flight; while no pulse
\* is in flight (the frame gap) no servo pin is high.
C32_OnlyInFlightPinHigh ==
    /\ Cardinality(ServoPinsHigh) <= 1
    /\ phase = "pulse" => ServoPinsHigh \subseteq {SERVOS[CURRENT_SERVO_INDEX].pin}
    /\ phase # "pulse" => ServoPinsHigh = {}

\* C33: in every slot state the Servo API reaches, read() returns an angle in
\* 0..180, and neither read() nor write() panics (no u16 underflow, no division
\* by zero).
C33_ReadInRangeNoTrap ==
    /\ ~trip.trapped
    /\ trip.stage = "read" => trip.back \in 0 .. 180

\* C34: once the clock is started, no into_pwm, set_duty or into_output on pins
\* 5 and 6 changes Timer0's clock-select bits (prescaler 64: CS01 and CS00) or
\* its overflow interrupt enable, so an overflow stays 1024 us.
C34_PwmKeepsClockPrescaler ==
    /\ TCCR0B \cap {0, 1, 2} = {0, 1}
    /\ TOIE0 \in TIMSK0

\* C35: timer_set_prescaler(timer, p) leaves the timer counting at the CPU
\* clock divided by p, for every timer and every Prescaler, and changes no bit
\* of the control register but the three clock-select bits.
C35_PrescalerSelectsDivisor ==
    [][\A timer \in Timers, p \in Prescalers :
          TimerSetPrescaler(timer, p) =>
              /\ timer = "Timer0" =>
                    /\ ClockDivisor(timer, CsOf(TCCR0B')) = p
                    /\ TCCR0B' \ {0, 1, 2} = TCCR0B \ {0, 1, 2}
              /\ timer = "Timer1" =>
                    /\ ClockDivisor(timer, CsOf(TCCR1B')) = p
                    /\ TCCR1B' \ {0, 1, 2} = TCCR1B \ {0, 1, 2}
              /\ timer = "Timer2" =>
                    /\ ClockDivisor(timer, TCCR2B' % 8) = p
                    /\ TCCR2B' \div 8 = TCCR2B \div 8]_vars

\* C36: an I2c call that has transmitted a START has transmitted a STOP after it
\* by the time it returns, whether it returns Ok or an error.
C36_StopBeforeReturn ==
    twi.result \in {"Ok", "Nack", "Timeout", "BusError"} /\ twi.sentStart => twi.sentStop

\* the bytes the ring holds between tail and head, oldest first
RingContents ==
    [k \in 1 .. AvailableValue(rxq) |->
        rxq.rx_buffer[(rxq.rx_buffer_tail + k - 1) % RX_BUFFER_SIZE]]

\* C37: the receive ring is a FIFO of capacity 63. It holds the bytes accepted
\* and not yet read, oldest first, never more than 63; available() returns
\* their number; read() returns -1 exactly when there is none and else the
\* oldest one, which it removes; peek() returns the same without removing it; a
\* byte arriving while 63 are held sets the overflow flag and changes neither
\* the buffer nor the indices.
C37_ReceiveRingIsFifo ==
    /\ [](/\ RingContents = rxq.fifo
          /\ Len(rxq.fifo) <= RX_BUFFER_SIZE - 1
          /\ rxq.ret.op = "available" => rxq.ret.value = Len(rxq.fifo)
          /\ rxq.ret.op \in {"read", "peek"} /\ rxq.ret.value = -1 => rxq.fifo = <<>>)
    /\ [][/\ SoftReadCheck => (rxq'.ret.op = "read" <=> rxq.fifo = <<>>)
          /\ SoftReadTake => rxq'.ret.value = Head(rxq.fifo) /\ rxq'.fifo = Tail(rxq.fifo)
          /\ SoftPeekCheck => (rxq'.ret.op = "peek" <=> rxq.fifo = <<>>)
          /\ SoftPeekTake => rxq'.ret.value = Head(rxq.fifo) /\ rxq'.fifo = rxq.fifo
          /\ SoftRecv /\ Len(rxq.fifo) = RX_BUFFER_SIZE - 1 =>
                /\ rxq'.buffer_overflow
                /\ rxq'.rx_buffer = rxq.rx_buffer
                /\ rxq'.rx_buffer_head = rxq.rx_buffer_head
                /\ rxq'.rx_buffer_tail = rxq.rx_buffer_tail]_vars

\* 63 bytes are held, byte 64 was dropped, and two reads and two more arrivals
\* have taken both indices round the end of the buffer
C37_FullDroppedAndWrapped ==
    /\ Len(rxq.fifo) = RX_BUFFER_SIZE - 1
    /\ rxq.buffer_overflow
    /\ rxq.rx_buffer_head = 1 /\ rxq.rx_buffer_tail = 2
    /\ rxq.fifo[1] = 3 /\ rxq.fifo[RX_BUFFER_SIZE - 1] = 66

\* C38: a drop is never lost. After a byte was dropped, until an overflow() call
\* has returned true, either the overflow flag is set or an overflow() call in
\* progress has read it as set.
C38_OverflowNeverLost ==
    rxq.unreported => rxq.buffer_overflow \/ (rxq.pc = "overflow_store" /\ rxq.loaded)

\* C39: the servo scheduler never gets stuck. The current-slot index is always
\* below 12; every firing of the compare interrupt either starts the pulse of
\* an attached slot strictly above the current one, or programs the frame gap
\* and sets the index to 0; and if the interrupt is enabled again and again,
\* the gap is reached again and again.
C39_SchedulerNeverStuck ==
    /\ [](CURRENT_SERVO_INDEX < SERVOS_PER_TIMER)
    /\ [][Vector11 =>
            \/ /\ CURRENT_SERVO_INDEX' > CURRENT_SERVO_INDEX
               /\ SERVOS[CURRENT_SERVO_INDEX'].is_attached
               /\ phase' = "pulse"
            \/ /\ CURRENT_SERVO_INDEX' = 0
               /\ OCR1A' = GapTicks(SERVOS)
               /\ phase' = "gap"]_vars
    /\ ([]<>(iflag /\ OCIE1A \in TIMSK1) => []<>(phase = "gap"))

\* the gap has been programmed at the end of a frame in which slot 1 was pulsed
C39_GapAfterPulse ==
    /\ phase = "gap"
    /\ CURRENT_SERVO_INDEX = 0
    /\ frameLog = <<1>>

\* C40: between foreground calls, the Timer2 compare-match interrupt is enabled
\* exactly when a tone pin is recorded, and while no tone pin is recorded the
\* toggle countdown is 0.
C40_InterruptIffTonePin ==
    ~tonePending.some =>
        /\ (OCIE2A \in TIMSK2 <=> TONE_PIN # NoPin)
        /\ (TONE_PIN = NoPin => TONE_TOGGLE_COUNT = 0)

====
